---------------------------- MODULE Spec2Model ----------------------------
(***************************************************************************)
(* State-machine model of the job-tracker frontend.                        *)
(*                                                                         *)
(*   - the Applications page (App.jsx 90-391): filter state, the debounce  *)
(*     timer of its effect, fetchApplications, handleSubmit, handleDelete; *)
(*   - the Analytics page (pages/Analytics.jsx 5-179): fetchAllAnalytics.  *)
(*                                                                         *)
(* JavaScript strings are sequences of one-character strings, so that      *)
(* encodeURIComponent, template-literal concatenation and the parsing of   *)
(* a query string are computed character by character.                     *)
(***************************************************************************)
EXTENDS Integers, Sequences, FiniteSets, TLC

(***************************************************************************)
(* Bounds of the model.                                                    *)
(***************************************************************************)
\* longest search text drawn as an input of the URL builder
MaxSearchLen == 2

(***************************************************************************)
(* Strings.                                                                *)
(***************************************************************************)
RECURSIVE Concat(_)
\* the concatenation of a sequence of strings
Concat(ss) == IF ss = <<>> THEN <<>> ELSE Head(ss) \o Concat(Tail(ss))

\* the strings over alphabet A of length at most n
StringsUpTo(A, n) == UNION {[1..k -> A] : k \in 0..n}

Letters ==
    {"a","b","c","d","e","f","g","h","i","j","k","l","m",
     "n","o","p","q","r","s","t","u","v","w","x","y","z",
     "A","B","C","D","E","F","G","H","I","J","K","L","M",
     "N","O","P","Q","R","S","T","U","V","W","X","Y","Z"}

Digits == {"0","1","2","3","4","5","6","7","8","9"}

\* the characters encodeURIComponent leaves alone (ECMA-262 uriUnreserved)
Unreserved == Letters \cup Digits \cup {"-","_",".","!","~","*","'","(",")"}

\* the UTF-8 byte of an ASCII character that is not unreserved, as two hex digits
HexOf ==
    [c \in {" ","&","=","%","?","#","+","/",":"} |->
        CASE c = " " -> <<"2","0">>
          [] c = "&" -> <<"2","6">>
          [] c = "=" -> <<"3","D">>
          [] c = "%" -> <<"2","5">>
          [] c = "?" -> <<"3","F">>
          [] c = "#" -> <<"2","3">>
          [] c = "+" -> <<"2","B">>
          [] c = "/" -> <<"2","F">>
          [] c = ":" -> <<"3","A">>]

\* a faulty encoder: the text is passed through unchanged
EncodeNothing(s) == s

RECURSIVE encodeURIComponent(_)
\* encodeURIComponent of the JavaScript runtime, on the ASCII characters above
encodeURIComponent(s) ==
    IF s = <<>> THEN <<>>
    ELSE (IF Head(s) \in Unreserved THEN <<Head(s)>> ELSE <<"%">> \o HexOf[Head(s)])
         \o encodeURIComponent(Tail(s))

RECURSIVE decodeURIComponent(_)
\* the inverse reading of a percent-encoded text: %XY is one character
decodeURIComponent(s) ==
    IF s = <<>> THEN <<>>
    ELSE IF Head(s) = "%" /\ Len(s) >= 3
              /\ \E c \in DOMAIN HexOf : HexOf[c] = <<s[2], s[3]>>
         THEN <<CHOOSE c \in DOMAIN HexOf : HexOf[c] = <<s[2], s[3]>> >>
              \o decodeURIComponent(SubSeq(s, 4, Len(s)))
         ELSE <<Head(s)>> \o decodeURIComponent(Tail(s))

\* whether s is made of unreserved characters and %XY escapes only
RECURSIVE IsPercentEncoded(_)
IsPercentEncoded(s) ==
    IF s = <<>> THEN TRUE
    ELSE IF Head(s) = "%"
         THEN /\ Len(s) >= 3
              /\ \E c \in DOMAIN HexOf : HexOf[c] = <<s[2], s[3]>>
              /\ IsPercentEncoded(SubSeq(s, 4, Len(s)))
         ELSE Head(s) \in Unreserved /\ IsPercentEncoded(Tail(s))

(***************************************************************************)
(* Literals of the source.                                                 *)
(***************************************************************************)
EmptyString == <<>>

API_URL ==
    <<"h","t","t","p",":","/","/","l","o","c","a","l","h","o","s","t",":","8","0","0","0">>

ApplicationsPath == <<"/","a","p","p","l","i","c","a","t","i","o","n","s">>

SearchKey == <<"s","e","a","r","c","h">>
StatusKey == <<"s","t","a","t","u","s">>
SourceKey == <<"s","o","u","r","c","e">>

Applied == <<"a","p","p","l","i","e","d">>
PhoneScreen == <<"p","h","o","n","e","_","s","c","r","e","e","n">>
Interview == <<"i","n","t","e","r","v","i","e","w">>
Offer == <<"o","f","f","e","r">>
Rejected == <<"r","e","j","e","c","t","e","d">>

LinkedIn == <<"L","i","n","k","e","d","I","n">>
Indeed == <<"I","n","d","e","e","d">>
CompanyWebsite == <<"C","o","m","p","a","n","y"," ","W","e","b","s","i","t","e">>
Referral == <<"R","e","f","e","r","r","a","l">>
Other == <<"O","t","h","e","r">>

\* the option values of the status filter <select>
StatusOptions == {EmptyString, Applied, PhoneScreen, Interview, Offer, Rejected}

\* the option values of the source filter <select>
SourceOptions == {EmptyString, LinkedIn, Indeed, CompanyWebsite, Referral, Other}

\* characters a user types into the search box (one plain, four that a URL reserves)
SearchAlphabet == {"a", " ", "&", "=", "%"}

SearchInputs == StringsUpTo(SearchAlphabet, MaxSearchLen)

(***************************************************************************)
(* The list URL of fetchApplications.                                      *)
(***************************************************************************)
\* a faulty builder: the status parameter is appended whether or not a status is chosen
BuildUrlAlwaysStatus(search, status, source) ==
    Concat(<<API_URL, ApplicationsPath, <<"?">>,
             IF search # EmptyString
                THEN SearchKey \o <<"=">> \o encodeURIComponent(search) \o <<"&">>
                ELSE <<>>,
             StatusKey \o <<"=">> \o status \o <<"&">>,
             IF source # EmptyString
                THEN SourceKey \o <<"=">> \o encodeURIComponent(source)
                ELSE <<>> >>)

\* a faulty builder: the search text is appended as typed
BuildUrlRawSearch(search, status, source) ==
    Concat(<<API_URL, ApplicationsPath, <<"?">>,
             IF search # EmptyString
                THEN SearchKey \o <<"=">> \o EncodeNothing(search) \o <<"&">>
                ELSE <<>>,
             IF status # EmptyString
                THEN StatusKey \o <<"=">> \o status \o <<"&">>
                ELSE <<>>,
             IF source # EmptyString
                THEN SourceKey \o <<"=">> \o encodeURIComponent(source)
                ELSE <<>> >>)

\* let url = `${API_URL}/applications?`; if (searchTerm) url += ...; (an empty
\* string is falsy); the status value is appended as it is
BuildUrl(search, status, source) ==
    Concat(<<API_URL, ApplicationsPath, <<"?">>,
             IF search # EmptyString
                THEN SearchKey \o <<"=">> \o encodeURIComponent(search) \o <<"&">>
                ELSE <<>>,
             IF status # EmptyString
                THEN StatusKey \o <<"=">> \o status \o <<"&">>
                ELSE <<>>,
             IF source # EmptyString
                THEN SourceKey \o <<"=">> \o encodeURIComponent(source)
                ELSE <<>> >>)

(***************************************************************************)
(* Reading a URL back, as the receiver of the request does: the query is   *)
(* what follows the first "?", its parameters are the non-empty pieces     *)
(* between "&", and a parameter is a key and a raw value around the first  *)
(* "=".                                                                    *)
(***************************************************************************)
\* the position of the first c in s, or 0
IndexOf(s, c) ==
    IF \E i \in 1..Len(s) : s[i] = c
       THEN CHOOSE i \in 1..Len(s) : s[i] = c /\ \A j \in 1..(i-1) : s[j] # c
       ELSE 0

QueryString(url) ==
    IF IndexOf(url, "?") = 0 THEN <<>>
    ELSE SubSeq(url, IndexOf(url, "?") + 1, Len(url))

RECURSIVE SplitOn(_, _)
\* the pieces of s between occurrences of c
SplitOn(s, c) ==
    IF IndexOf(s, c) = 0 THEN <<s>>
    ELSE <<SubSeq(s, 1, IndexOf(s, c) - 1)>>
         \o SplitOn(SubSeq(s, IndexOf(s, c) + 1, Len(s)), c)

\* one piece "key=value" as a record; a piece without "=" is a key with no value
ParsePair(piece) ==
    IF IndexOf(piece, "=") = 0
       THEN [key |-> piece, raw |-> <<>>]
       ELSE [key |-> SubSeq(piece, 1, IndexOf(piece, "=") - 1),
             raw |-> SubSeq(piece, IndexOf(piece, "=") + 1, Len(piece))]

\* the parameters of a URL, in order
QueryParams(url) ==
    LET pieces == SelectSeq(SplitOn(QueryString(url), "&"), LAMBDA p : p # <<>>)
    IN  [i \in 1..Len(pieces) |-> ParsePair(pieces[i])]

\* the keys of the parameters of a URL
QueryKeys(url) == {QueryParams(url)[i].key : i \in DOMAIN QueryParams(url)}

\* the raw values a URL carries for key k
RawValues(url, k) ==
    {QueryParams(url)[i].raw : i \in {j \in DOMAIN QueryParams(url) : QueryParams(url)[j].key = k}}

(***************************************************************************)
(* The URL builder on its own: the three filter values are drawn from the  *)
(* values the controls can hold and fetchApplications builds its URL.      *)
(***************************************************************************)
VARIABLES probeArgs, probeUrl

probeVars == <<probeArgs, probeUrl>>

\* React state of the Analytics page, its five requests and the place
\* fetchAllAnalytics has reached
VARIABLES
    dashboard,        \* useState(null)
    funnel,           \* useState(null)
    sources,          \* useState(null)
    statusDist,       \* useState(null)
    weeklyTrends,     \* useState(null)
    analyticsLoading, \* useState(true)
    analyticsError,   \* useState(null)
    analyticsReqs,    \* the five fetches of Promise.all([...]), in array order
    analyticsPc       \* "effect", "all" (awaiting Promise.all), "json" (awaiting
                      \* the k-th res.json()), "done"

analyticsVars ==
    <<dashboard, funnel, sources, statusDist, weeklyTrends, analyticsLoading,
      analyticsError, analyticsReqs, analyticsPc>>

\* React state of the Companies page and the requests it has issued.  The
\* repository holds the page in two variants: one shows a company's statistics
\* and sets its status with a <select>, the other shows its applications and
\* details and edits its status and notes.
VARIABLES
    variant,           \* "stats" or "notes": which Companies component is mounted
    companies,         \* useState([])
    selectedCompany,   \* useState(null)
    companyDetails,    \* useState(null)
    companiesLoading,  \* useState(true)
    companiesError,    \* useState(null)
    companySearch,     \* useState(''), the searchTerm of the stats variant
    notes,             \* useState(''), notes variant
    showNotesForm,     \* useState(false), notes variant
    companiesMounted,  \* FALSE once a render has thrown
    cnet,              \* every request the page has issued, in issue order
    chist              \* bookkeeping of what happened, read by the properties only

companiesVars ==
    <<variant, companies, selectedCompany, companyDetails, companiesLoading,
      companiesError, companySearch, notes, showNotesForm, companiesMounted, cnet, chist>>

\* the state of the pages that are not on the route
elsewhere == <<probeVars, analyticsVars, companiesVars>>

NotBuilt == <<"-">>

InitProbe ==
    /\ probeArgs \in [search : SearchInputs, status : StatusOptions, source : SourceOptions]
    /\ probeUrl = NotBuilt

ApplyBuildUrl ==
    /\ probeUrl = NotBuilt
    /\ probeUrl' = BuildUrl(probeArgs.search, probeArgs.status, probeArgs.source)
    /\ UNCHANGED probeArgs



(***************************************************************************)
(* The Applications page.                                                  *)
(*                                                                         *)
(* React state of the component, the timeouts its effect has set, and the  *)
(* requests it has issued.  A handler that awaits a request continues in   *)
(* the closure of the render that created it, so a request carries the     *)
(* filter values of that render.                                           *)
(***************************************************************************)
\* requests the page issues in one run of the model
MaxRequests == 3
\* filter changes in one run of the model
MaxChanges == 2

VARIABLES
    applications,   \* useState([]): the parsed body of the last applied list response
    loading,        \* useState(true)
    error,          \* useState(null): "null" or the message
    showForm,       \* useState(false)
    searchTerm,     \* useState('')
    statusFilter,   \* useState('')
    sourceFilter,   \* useState('')
    formData,       \* useState({company: '', ...})
    mounted,        \* FALSE once a render has thrown and React has removed the tree
    timers,         \* pending timeouts: [id, closure, change]
    effectTimeoutId,\* timeoutId held by the cleanup of the last effect run
    net,            \* every request issued so far, in issue order
    hist            \* bookkeeping of what happened, read by the properties only

appVars ==
    <<applications, loading, error, showForm, searchTerm, statusFilter, sourceFilter,
      formData, mounted, timers, effectTimeoutId, net, hist>>

vars == <<appVars, probeVars, analyticsVars, companiesVars>>

NoError == "null"
FetchError == "Failed to fetch applications"
CreateError == "Failed to create application"
DeleteError == "Failed to delete application"

\* the arrays of rows (by id) a list response may carry
RowSets == {{}, {7, 12}}

AppIds == UNION RowSets

FormFields == <<"company", "role", "status", "source", "location", "salary_range", "notes">>

\* the object literal of useState(...) and of the reset after a successful create
DefaultForm ==
    [company |-> EmptyString, role |-> EmptyString, status |-> Applied,
     source |-> LinkedIn, location |-> EmptyString, salary_range |-> EmptyString,
     notes |-> EmptyString]

\* values the user gives the form fields (the selects offer their options)
FormValues ==
    [f \in {FormFields[i] : i \in DOMAIN FormFields} |->
        CASE f = "company" -> {EmptyString, <<"A","&","B">>}
          [] f = "role" -> {EmptyString, <<"d","e","v">>}
          [] f = "status" -> {Applied}
          [] f = "source" -> {LinkedIn}
          [] f = "location" -> {EmptyString}
          [] f = "salary_range" -> {EmptyString}
          [] f = "notes" -> {EmptyString, <<"h","i">>}]

\* values the user gives the three filters in a run of the page
SearchChoices == {EmptyString, <<"a"," ","b">>}
StatusChoices == {EmptyString, Offer}
SourceChoices == {EmptyString, CompanyWebsite}

\* JSON.stringify of an object of strings: its members in insertion order
JSONStringify(obj) == [i \in DOMAIN FormFields |-> <<FormFields[i], obj[FormFields[i]]>>]

\* the object a JSON text of members denotes
JSONParse(text) ==
    [k \in {text[i][1] : i \in DOMAIN text} |->
        text[CHOOSE i \in DOMAIN text : text[i][1] = k][2]]

\* the filter values of the current render
CurrentFilters == [search |-> searchTerm, status |-> statusFilter, source |-> sourceFilter]

DigitChars == <<"0","1","2","3","4","5","6","7","8","9">>

RECURSIVE IdString(_)
\* `${id}` of a number: its decimal digits
IdString(id) ==
    IF id < 10 THEN <<DigitChars[id + 1]>>
    ELSE IdString(id \div 10) \o <<DigitChars[(id % 10) + 1]>>

(***************************************************************************)
(* Requests.  A request is pending until its promise settles; a settled     *)
(* request keeps whether fetch fulfilled, response.ok, and the kind of     *)
(* body it carried.                                                        *)
(***************************************************************************)
NoForm == DefaultForm

\* why a request was issued: the expiry of the timeout set after filter change
\* `change` (0 is the mount), a submission of `form`, a confirmed delete of row
\* `id`, or the fetchApplications() call that follows request `after`; `latest`
\* is the number of filter changes made when the request was issued
Cause(type, change, after, id, form) ==
    [type |-> type, change |-> change, latest |-> hist.changes, after |-> after,
     id |-> id, form |-> form]

Request(method, url, body, closure, cause) ==
    [method |-> method, url |-> url, body |-> body, closure |-> closure, cause |-> cause,
     state |-> "pending", ok |-> FALSE, kind |-> "-"]

\* fetch(url) of fetchApplications, called in the render whose filters are `closure`
FetchRequest(closure, cause) ==
    Request("GET", BuildUrl(closure.search, closure.status, closure.source), <<>>,
            closure, cause)

\* a faulty body: the form as it was first rendered
PostBodyOfDefaults(form) == JSONStringify(DefaultForm)

\* body: JSON.stringify(formData)
PostBody(form) == JSONStringify(form)

\* a faulty create: the form is sent as an edit of the collection
PutRequest(form, closure, cause) ==
    Request("PUT", API_URL \o ApplicationsPath, PostBody(form), closure, cause)

\* fetch(`${API_URL}/applications`, {method: 'POST', ...}) of handleSubmit
PostRequest(form, closure, cause) ==
    Request("POST", API_URL \o ApplicationsPath, PostBody(form), closure, cause)

\* fetch(`${API_URL}/applications/${id}`, {method: 'DELETE'}) of handleDelete
DeleteRequest(id, closure, cause) ==
    Request("DELETE", API_URL \o ApplicationsPath \o <<"/">> \o IdString(id), <<>>,
            closure, cause)

Pending(method) == {i \in DOMAIN net : net[i].method = method /\ net[i].state = "pending"}

\* requests still to come for what is already under way: one list fetch per
\* pending timeout and one per create or delete that has not settled
Reserved == Cardinality(timers) + Cardinality(Pending("POST")) + Cardinality(Pending("DELETE"))

\* the parsed bodies a list response may carry: an array of rows, a JSON object
\* (the body of an error status), or text that is no JSON
ListBodies ==
    {[kind |-> "list", rows |-> S] : S \in RowSets}
    \cup {[kind |-> "object", rows |-> {}], [kind |-> "invalid", rows |-> {}]}

\* how fetch() may settle for the list GET
GetOutcomes ==
    {[settled |-> "rejected", ok |-> FALSE, body |-> [kind |-> "invalid", rows |-> {}]]}
    \cup {[settled |-> "fulfilled", ok |-> (b.kind = "list"), body |-> b] : b \in ListBodies}

\* how fetch() may settle for a create or a delete (the body is not read)
MutationOutcomes ==
    {[settled |-> "rejected", ok |-> FALSE], [settled |-> "fulfilled", ok |-> TRUE],
     [settled |-> "fulfilled", ok |-> FALSE]}

\* a faulty handler: a request that was rejected is sent again
SettleAndRetry(i, settled, ok, kind) ==
    LET done == [net EXCEPT ![i].state = settled, ![i].ok = ok, ![i].kind = kind]
    IN  IF settled = "rejected" THEN Append(done, net[i]) ELSE done

\* net with request i settled
Settle(i, settled, ok, kind) ==
    [net EXCEPT ![i].state = settled, ![i].ok = ok, ![i].kind = kind]

(***************************************************************************)
(* Rendering.                                                              *)
(***************************************************************************)
\* the table branch evaluates applications.length and applications.map(...):
\* with a body that is no array, .map is not a function and the render throws
RenderThrows(apps, load, err) == err = NoError /\ ~load /\ apps.kind # "list"

\* a faulty render: a spinner in place of the whole page while loading, as the
\* Companies page does
ViewSpinnerFirst ==
    IF ~mounted THEN "blank"
    ELSE IF loading THEN "loading"
    ELSE IF error # NoError THEN "error"
    ELSE "page"

\* what the component returns
View ==
    IF ~mounted THEN "blank"
    ELSE IF error # NoError THEN "error"
    ELSE "page"

\* the controls of the page exist only when the page, not the error, is rendered
ControlsShown == View = "page"

\* ids of the rows that carry a Delete button
RowsShown == IF ControlsShown /\ ~loading /\ applications.kind = "list"
                THEN applications.rows ELSE {}

(***************************************************************************)
(* The Analytics page: fetchAllAnalytics.                                  *)
(***************************************************************************)
AnalyticsError == "Failed to fetch analytics"

\* the endpoints, in the order of the array given to Promise.all
Endpoints ==
    <<"/analytics/dashboard", "/analytics/funnel", "/analytics/sources",
      "/analytics/status-distribution", "/analytics/weekly-trends">>

NullData == [from |-> "null", ok |-> FALSE]

\* what res.json() gives for the response of endpoint k
DataOf(k) == [from |-> Endpoints[k], ok |-> analyticsReqs[k].ok]

Unsent == [state |-> "unsent", ok |-> FALSE, json |-> "-"]

\* how one fetch may settle: rejected, or fulfilled with a 2xx or an error status
\* and a body that is JSON or not
AnalyticsOutcomes ==
    {[state |-> "rejected", ok |-> FALSE, json |-> "-"],
     [state |-> "fulfilled", ok |-> TRUE, json |-> "valid"],
     [state |-> "fulfilled", ok |-> FALSE, json |-> "valid"],
     [state |-> "fulfilled", ok |-> FALSE, json |-> "invalid"]}

\* a faulty combinator: settles with the first fetch that settles
PromiseRace(reqs) ==
    IF \E k \in DOMAIN reqs : reqs[k].state = "rejected" THEN "rejected"
    ELSE IF \E k \in DOMAIN reqs : reqs[k].state = "fulfilled" THEN "fulfilled"
    ELSE "pending"

\* Promise.all: rejected as soon as one promise rejects, fulfilled once all are
PromiseAll(reqs) ==
    IF \E k \in DOMAIN reqs : reqs[k].state = "rejected" THEN "rejected"
    ELSE IF \A k \in DOMAIN reqs : reqs[k].state = "fulfilled" THEN "fulfilled"
    ELSE "pending"

\* a faulty handler: the catch block is empty
CatchSwallows == "null"

\* catch (err) { setError('Failed to fetch analytics') }
CatchSetsError == AnalyticsError

\* what the component returns
AnalyticsView ==
    IF analyticsLoading THEN "loading"
    ELSE IF analyticsError # "null" THEN "error"
    ELSE "sections"

InitAnalyticsPage ==
    /\ dashboard = NullData
    /\ funnel = NullData
    /\ sources = NullData
    /\ statusDist = NullData
    /\ weeklyTrends = NullData
    /\ analyticsLoading = TRUE
    /\ analyticsError = "null"
    /\ analyticsReqs = [k \in DOMAIN Endpoints |-> Unsent]
    /\ analyticsPc = [at |-> "effect", k |-> 0]

(***************************************************************************)
(* The Companies page: literals, URLs, requests and response bodies.       *)
(***************************************************************************)
Variants == {"stats", "notes"}

CompaniesPath == <<"/","c","o","m","p","a","n","i","e","s">>
StatsSuffix == <<"/","s","t","a","t","s">>
DetailsSuffix == <<"/","d","e","t","a","i","l","s">>
StatusSuffix == <<"/","s","t","a","t","u","s">>
NotesSuffix == <<"/","n","o","t","e","s">>

DreamCompany == <<"d","r","e","a","m","_","c","o","m","p","a","n","y">>
Interested == <<"i","n","t","e","r","e","s","t","e","d">>
Researching == <<"r","e","s","e","a","r","c","h","i","n","g">>
NotInterested == <<"n","o","t","_","i","n","t","e","r","e","s","t","e","d">>

\* the option values of the status <select> of the stats variant
CompanyStatusOptions == {EmptyString, DreamCompany, Interested, Researching, NotInterested}

\* the arguments of the three status buttons of the notes variant
CompanyStatusButtons == {DreamCompany, Interested, NotInterested}

CompaniesFetchError == "Failed to fetch companies"
CompanyDetailsError == "Failed to fetch company details"
UpdateNotesError == "Failed to update notes"
UpdateStatusError == "Failed to update status"

\* company names the server knows; the second needs escaping in a URL
Acme == <<"A","c","m","e">>
AandB == <<"A","&","B">>
CompanyNames == {Acme, AandB}

\* the value of data.companies a list response carries: company_name -> status
CompanyLists ==
    {[n \in CompanyNames |-> IF n = Acme THEN Interested ELSE EmptyString]}

\* values the user picks in the status <select>, presses as status button,
\* types as notes and types in the search box of the stats variant
StatusPicks == {EmptyString, Interested}
ButtonPicks == {DreamCompany, Interested}
NoteDrafts == {<<"h","i">>}
CompanySearches == {EmptyString, <<"a","c">>}

\* details.notes of a details response: absent (undefined) or a text
Absent == <<"undefined">>
ServerNotes == {<<"o","k">>}

\* `${API_URL}/companies/${encodeURIComponent(companyName)}`
CompanyUrl(companyName) ==
    API_URL \o CompaniesPath \o <<"/">> \o encodeURIComponent(companyName)

\* a faulty URL: the name is put in as it is
CompanyUrlRaw(companyName) == API_URL \o CompaniesPath \o <<"/">> \o companyName

CompaniesUrl == API_URL \o CompaniesPath
StatsUrl(companyName) == CompanyUrl(companyName) \o StatsSuffix
DetailsUrl(companyName) == CompanyUrl(companyName) \o DetailsSuffix
StatusUrl(companyName) == CompanyUrl(companyName) \o StatusSuffix
NotesUrl(companyName) == CompanyUrl(companyName) \o NotesSuffix

\* JSON.stringify({ status }) and JSON.stringify({ notes })
StatusBody(status) == << <<"status", status>> >>
NotesBodyEmpty(text) == << <<"notes", EmptyString>> >>
NotesBody(text) == << <<"notes", text>> >>

\* values of the React state
NoCompany == <<"null">>
NoCompanies == [kind |-> "list", rows |-> <<>>]
NoDetails == [kind |-> "null", of |-> NoCompany, notes |-> Absent]

\* why a request was issued: the mount, user event number `ev` of chist.log (a
\* click on a row, a status update, a save of the notes, each logged with the
\* company and the value given), or the refresh that
\* follows PUT request `after`; `call` numbers the fetchCompanyDetails
\* invocation a detail request belongs to, `selected` is selectedCompany of the
\* render whose handler issued it
CCause(type, ev, after, call) ==
    [type |-> type, ev |-> ev, after |-> after, call |-> call, selected |-> selectedCompany]

\* part: "list", "stats", "apps", "details", "status" or "notes"
CRequest(method, url, body, part, name, cause) ==
    [method |-> method, url |-> url, body |-> body, part |-> part, name |-> name,
     cause |-> cause, state |-> "pending", ok |-> FALSE, kind |-> "-", notes |-> Absent]

\* fetch(`${API_URL}/companies`) of fetchCompanies
CompaniesRequest(cause) == CRequest("GET", CompaniesUrl, <<>>, "list", NoCompany, cause)

\* the fetches of one fetchCompanyDetails(companyName) call
DetailRequests(companyName, cause) ==
    IF variant = "stats"
       THEN <<CRequest("GET", StatsUrl(companyName), <<>>, "stats", companyName, cause)>>
       ELSE <<CRequest("GET", CompanyUrl(companyName), <<>>, "apps", companyName, cause),
              CRequest("GET", DetailsUrl(companyName), <<>>, "details", companyName, cause)>>

\* the PUT of updateCompanyStatus / updateStatus
StatusRequest(companyName, status, cause) ==
    CRequest("PUT", StatusUrl(companyName), StatusBody(status), "status", companyName, cause)

\* the PUT of updateNotes
NotesRequest(companyName, text, cause) ==
    CRequest("PUT", NotesUrl(companyName), NotesBody(text), "notes", companyName, cause)

\* how the fetch of the list may settle and what response.json() gives: no
\* JSON, an object without `companies` (the body of an error status), or
\* { companies: [...] }
CompaniesOutcomes ==
    {[settled |-> "rejected", ok |-> FALSE, kind |-> "-", rows |-> <<>>, notes |-> Absent],
     [settled |-> "fulfilled", ok |-> FALSE, kind |-> "invalid", rows |-> <<>>, notes |-> Absent],
     [settled |-> "fulfilled", ok |-> FALSE, kind |-> "object", rows |-> <<>>, notes |-> Absent]}
    \cup {[settled |-> "fulfilled", ok |-> TRUE, kind |-> "data", rows |-> L, notes |-> Absent] :
            L \in CompanyLists}

\* the same for a detail request: no JSON, an object without the fields of
\* the endpoint (the body of an error status; it has no notes), or the data of
\* the endpoint, with notes in a details body.  The notes variant reads no
\* field of the apps body, and a body of it that is no JSON takes the catch
\* that the same body of the details request takes: the apps request is
\* rejected or carries data
DetailOutcomes(part) ==
    {[settled |-> "rejected", ok |-> FALSE, kind |-> "-", rows |-> <<>>, notes |-> Absent]}
    \cup (IF part = "apps" THEN {}
          ELSE {[settled |-> "fulfilled", ok |-> FALSE, kind |-> "invalid", rows |-> <<>>,
                 notes |-> Absent],
                [settled |-> "fulfilled", ok |-> FALSE, kind |-> "object", rows |-> <<>>,
                 notes |-> Absent]})
    \cup {[settled |-> "fulfilled", ok |-> TRUE, kind |-> "data", rows |-> <<>>, notes |-> n] :
            n \in IF part = "details" THEN ServerNotes ELSE {Absent}}

\* how the fetch of a PUT may settle (the body is not read)
PutOutcomes ==
    {[settled |-> "rejected", ok |-> FALSE, kind |-> "-", rows |-> <<>>, notes |-> Absent],
     [settled |-> "fulfilled", ok |-> TRUE, kind |-> "-", rows |-> <<>>, notes |-> Absent],
     [settled |-> "fulfilled", ok |-> FALSE, kind |-> "-", rows |-> <<>>, notes |-> Absent]}

\* cnet with request i settled as o
CSettle(i, o) ==
    [cnet EXCEPT ![i].state = o.settled, ![i].ok = o.ok, ![i].kind = o.kind,
                 ![i].notes = o.notes]

\* setCompanies(data.companies || []) of the stats variant,
\* setCompanies(data.companies) of the notes variant
CompaniesOf(o) ==
    IF o.kind = "data" THEN [kind |-> "list", rows |-> o.rows]
    ELSE IF variant = "stats" THEN NoCompanies
    ELSE [kind |-> "undefined", rows |-> <<>>]

\* setCompanyDetails(data) of the stats variant: the parsed body, whatever it is
StatsDetails(companyName, o) ==
    [kind |-> IF o.kind = "data" THEN "stats" ELSE "object", of |-> companyName,
     notes |-> Absent]

\* setCompanyDetails({ ...apps, ...details }) of the notes variant
MergedDetails(companyName, apps, details) ==
    [kind |-> "merged", of |-> companyName, notes |-> details.notes]

\* a faulty draft: the text typed is kept
NotesKept(details) == notes

\* details.notes || ''
NotesOf(details) == IF details.notes = Absent THEN EmptyString ELSE details.notes

(***************************************************************************)
(* Rendering of the Companies page.                                        *)
(***************************************************************************)
\* the stats variant reads companyDetails.overview.application_count of a
\* selected company, which throws on a body without `overview`; the notes
\* variant calls companies.map, which throws on undefined
CompaniesRenderThrows(v, list, selected, details, load, err) ==
    /\ ~load /\ err = NoError
    /\ \/ v = "stats" /\ selected # NoCompany /\ details.kind = "object"
       \/ v = "notes" /\ list.kind # "list"

\* what the component returns
CompaniesView ==
    IF ~companiesMounted THEN "blank"
    ELSE IF companiesLoading THEN "loading"
    ELSE IF companiesError # NoError THEN "error"
    ELSE "page"

\* company.company_name.toLowerCase().includes(searchTerm.toLowerCase())
Lower(c) == IF c = "A" THEN "a" ELSE IF c = "B" THEN "b" ELSE c

Includes(text, piece) ==
    \E k \in 0..(Len(text) - Len(piece)) :
        \A j \in 1..Len(piece) : Lower(text[k + j]) = Lower(piece[j])

\* the names of the rows that can be clicked
CompanyRows ==
    IF CompaniesView # "page" \/ companies.kind # "list" THEN {}
    ELSE {n \in DOMAIN companies.rows :
            variant = "stats" => Includes(n, companySearch)}

\* the status controls exist in the detail panel of a selected company (in the
\* stats variant: once its details are there)
StatusControlShown ==
    /\ CompaniesView = "page"
    /\ selectedCompany # NoCompany
    /\ variant = "stats" => companyDetails.kind = "stats"

\* value={companies.find(c => c.company_name === selectedCompany)?.status || ''}
ShownStatus ==
    IF companies.kind = "list" /\ selectedCompany \in DOMAIN companies.rows
       THEN companies.rows[selectedCompany] ELSE EmptyString

\* requests the Companies page issues, and user events that issue requests (row
\* clicks, status updates, saves of the notes), in one run of the model
MaxCompanyRequests == 7
MaxCompanyEvents == 2

\* the state of the component as constructed, before its effect has run
CompaniesConstructed ==
    /\ companies = NoCompanies
    /\ selectedCompany = NoCompany
    /\ companyDetails = NoDetails
    /\ companiesLoading = TRUE
    /\ companiesError = NoError
    /\ companySearch = EmptyString
    /\ notes = EmptyString
    /\ showNotesForm = FALSE
    /\ companiesMounted = TRUE
    /\ cnet = <<>>
    /\ chist = [log |-> <<>>, calls |-> 0, console |-> 0, mounts |-> 0]

\* the Companies page when another page is on the route
IdleCompanies == variant = "stats" /\ CompaniesConstructed

\* either variant of the Companies page
InitCompaniesPage == variant \in Variants /\ CompaniesConstructed

(***************************************************************************)
(* Initial state: the first render has run and its effect has set the      *)
(* first timeout.                                                          *)
(***************************************************************************)
\* the last confirm() prompt: the answer, and a bit that flips at every prompt
NoPrompt == [answer |-> FALSE, bit |-> 0]

\* a faulty initial state: useState(false)
LoadingFalseAtMount == FALSE

\* const [loading, setLoading] = useState(true)
LoadingAtMount == TRUE

InitApp ==
    /\ applications = [kind |-> "list", rows |-> {}]
    /\ loading = LoadingAtMount
    /\ error = NoError
    /\ showForm = FALSE
    /\ searchTerm = EmptyString
    /\ statusFilter = EmptyString
    /\ sourceFilter = EmptyString
    /\ formData = DefaultForm
    /\ mounted = TRUE
    /\ timers = {[id |-> 1,
                  closure |-> [search |-> EmptyString, status |-> EmptyString,
                               source |-> EmptyString],
                  change |-> 0]}
    /\ effectTimeoutId = 1
    /\ net = <<>>
    /\ hist = [changes |-> 0, submits |-> 0, prompt |-> NoPrompt, accepted |-> 0,
               parsed |-> 0, shownFrom |-> 0]

IdleProbe == probeArgs = [search |-> EmptyString, status |-> EmptyString,
                          source |-> EmptyString] /\ probeUrl = NotBuilt

Init == InitApp /\ IdleProbe /\ InitAnalyticsPage /\ IdleCompanies

(***************************************************************************)
(* The debounce effect: useEffect(() => { const timeoutId = setTimeout(    *)
(* fetchApplications, 300); return () => clearTimeout(timeoutId) },        *)
(* [searchTerm, statusFilter, sourceFilter]).                              *)
(***************************************************************************)
\* a faulty cleanup: the timeout of the previous run is left pending
KeepTimeout(ts, id) == ts

\* clearTimeout(timeoutId)
ClearTimeout(ts, id) == {t \in ts : t.id # id}

\* a faulty effect: the callback keeps the filters of the first render
SetTimeoutOfFirstRender(ts, id, closure, change) ==
    ts \cup {[id |-> id,
              closure |-> [search |-> EmptyString, status |-> EmptyString,
                           source |-> EmptyString],
              change |-> change]}

\* setTimeout(() => fetchApplications(), 300) in the render whose filters are `closure`
SetTimeout(ts, id, closure, change) ==
    ts \cup {[id |-> id, closure |-> closure, change |-> change]}

\* a changed dependency: React runs the cleanup of the last run, then the effect
RunEffect(closure) ==
    /\ timers' = SetTimeout(ClearTimeout(timers, effectTimeoutId), hist.changes + 2,
                            closure, hist.changes + 1)
    /\ effectTimeoutId' = hist.changes + 2
    /\ hist' = [hist EXCEPT !.changes = @ + 1]

\* room for the list fetch of one more timeout
RoomForTimeout ==
    Len(net) + Reserved - Cardinality(timers \ ClearTimeout(timers, effectTimeoutId)) + 1
        <= MaxRequests

UserCanAct == mounted /\ ControlsShown

\* onChange of the search box: setSearchTerm(e.target.value)
ChangeSearch(v) ==
    /\ UserCanAct /\ RoomForTimeout /\ hist.changes < MaxChanges
    /\ v # searchTerm
    /\ searchTerm' = v
    /\ RunEffect([search |-> v, status |-> statusFilter, source |-> sourceFilter])
    /\ UNCHANGED <<applications, loading, error, showForm, statusFilter, sourceFilter,
                   formData, mounted, net, elsewhere>>

\* onChange of the status select: setStatusFilter(e.target.value)
ChangeStatus(v) ==
    /\ UserCanAct /\ RoomForTimeout /\ hist.changes < MaxChanges
    /\ v # statusFilter
    /\ statusFilter' = v
    /\ RunEffect([search |-> searchTerm, status |-> v, source |-> sourceFilter])
    /\ UNCHANGED <<applications, loading, error, showForm, searchTerm, sourceFilter,
                   formData, mounted, net, elsewhere>>

\* onChange of the source select: setSourceFilter(e.target.value)
ChangeSource(v) ==
    /\ UserCanAct /\ RoomForTimeout /\ hist.changes < MaxChanges
    /\ v # sourceFilter
    /\ sourceFilter' = v
    /\ RunEffect([search |-> searchTerm, status |-> statusFilter, source |-> v])
    /\ UNCHANGED <<applications, loading, error, showForm, searchTerm, statusFilter,
                   formData, mounted, net, elsewhere>>

\* the quiet period of a pending timeout has elapsed: fetchApplications() starts
\* (setLoading(true), the URL, fetch(url))
TimerFires(t) ==
    /\ t \in timers
    /\ Len(net) < MaxRequests
    /\ timers' = timers \ {t}
    /\ loading' = (IF mounted THEN TRUE ELSE loading)
    /\ net' = Append(net, FetchRequest(t.closure,
                                       Cause("timer", t.change, 0, 0, NoForm)))
    /\ UNCHANGED <<applications, error, showForm, searchTerm, statusFilter, sourceFilter,
                   formData, mounted, effectTimeoutId, hist, elsewhere>>

(***************************************************************************)
(* fetchApplications after its await.                                      *)
(***************************************************************************)
\* a faulty function without its finally block: loading is left as it is
FinallyMissing(load) == load

\* finally { setLoading(false) }
Finally(load) == FALSE

\* a guard the code does not have: drop a response older than one already applied
AcceptsNewestOnly(i) == i > hist.shownFrom

\* setApplications(data) runs for whichever response arrives: nothing compares
\* the response with later requests
AcceptsResponse(i) == TRUE

\* the list response of request i arrives with outcome o
GetResponds(i, o) ==
    /\ i \in Pending("GET")
    /\ o \in GetOutcomes
    /\ net' = Settle(i, o.settled, o.ok, IF o.settled = "rejected" THEN "-" ELSE o.body.kind)
    /\ IF ~mounted
          THEN UNCHANGED <<applications, error, loading, mounted, timers, hist>>
          ELSE IF o.settled = "rejected" \/ o.body.kind = "invalid"
          THEN \* fetch or response.json() rejected: catch, finally
               /\ error' = FetchError
               /\ loading' = Finally(loading)
               /\ UNCHANGED <<applications, mounted, timers, hist>>
          ELSE \* setApplications(data); setError(null); finally setLoading(false)
               /\ applications' = (IF AcceptsResponse(i) THEN o.body ELSE applications)
               /\ error' = NoError
               /\ loading' = Finally(loading)
               /\ hist' = [hist EXCEPT !.parsed = i,
                                       !.shownFrom = IF AcceptsResponse(i) THEN i ELSE @]
               /\ mounted' = ~RenderThrows(applications', loading', error')
               /\ timers' = (IF mounted' THEN timers
                             ELSE ClearTimeout(timers, effectTimeoutId))
    /\ UNCHANGED <<showForm, searchTerm, statusFilter, sourceFilter, formData,
                   effectTimeoutId, elsewhere>>

(***************************************************************************)
(* The form.                                                               *)
(***************************************************************************)
\* onClick of "Add Application": setShowForm(!showForm)
ToggleForm ==
    /\ UserCanAct
    /\ showForm' = ~showForm
    /\ UNCHANGED <<hist, applications, loading, error, searchTerm, statusFilter, sourceFilter,
                   formData, mounted, timers, effectTimeoutId, net, elsewhere>>

\* onClick of "Cancel": setShowForm(false)
CancelForm ==
    /\ UserCanAct
    /\ showForm
    /\ showForm' = FALSE
    /\ UNCHANGED <<hist, applications, loading, error, searchTerm, statusFilter, sourceFilter,
                   formData, mounted, timers, effectTimeoutId, net, elsewhere>>

\* onChange of a form control: setFormData({...formData, [f]: e.target.value})
SetFormField(f, v) ==
    /\ UserCanAct
    /\ showForm
    /\ v \in FormValues[f]
    /\ v # formData[f]
    /\ formData' = [formData EXCEPT ![f] = v]
    /\ UNCHANGED <<hist, applications, loading, error, showForm, searchTerm, statusFilter,
                   sourceFilter, mounted, timers, effectTimeoutId, net, elsewhere>>

\* a faulty handler: the list is fetched again with the filters of the moment
RefetchClosureOfLastRender(i) == CurrentFilters

\* fetchApplications() called by handleSubmit or handleDelete after its await
\* is the function of the render in which the handler was created: it reads
\* the filters of that render, which request i carries
RefetchClosure(i) == net[i].closure

\* a faulty submit: the request is sent twice
SubmitRequestsTwice(form, closure, cause) ==
    <<PostRequest(form, closure, cause), PostRequest(form, closure, cause)>>

\* the requests handleSubmit issues before its await
SubmitRequests(form, closure, cause) == <<PostRequest(form, closure, cause)>>

\* the browser submits the form only with its two required inputs filled
FormIsValid == formData.company # EmptyString /\ formData.role # EmptyString

\* onSubmit of the form: handleSubmit up to its await
HandleSubmit ==
    /\ UserCanAct
    /\ showForm
    /\ FormIsValid
    /\ Len(net) + Reserved + 2 <= MaxRequests
    /\ net' = net \o SubmitRequests(formData, CurrentFilters,
                                    Cause("submit", 0, 0, 0, formData))
    /\ hist' = [hist EXCEPT !.submits = @ + 1]
    /\ UNCHANGED <<applications, loading, error, showForm, searchTerm, statusFilter,
                   sourceFilter, formData, mounted, timers, effectTimeoutId, elsewhere>>

\* a faulty reset: the form keeps what was typed
FormKept(form) == form

\* setFormData({company: '', role: '', status: 'applied', ...}) after a create
FormAfterCreate(form) == DefaultForm

\* a faulty check: the status of the response is not looked at
CreatedAlways(o) == TRUE

\* if (response.ok) { ... }
Created(o) == o.ok

\* the response of create request i arrives: handleSubmit after its await
PostResponds(i, o) ==
    /\ i \in Pending("POST")
    /\ o \in MutationOutcomes
    /\ IF o.settled = "rejected"
          THEN \* catch
               /\ net' = Settle(i, o.settled, o.ok, "-")
               /\ error' = (IF mounted THEN CreateError ELSE error)
               /\ UNCHANGED <<showForm, formData, loading>>
          ELSE IF Created(o)
          THEN \* setShowForm(false); setFormData({...}); fetchApplications()
               /\ showForm' = (IF mounted THEN FALSE ELSE showForm)
               /\ formData' = (IF mounted THEN FormAfterCreate(formData) ELSE formData)
               /\ loading' = (IF mounted THEN TRUE ELSE loading)
               /\ net' = Append(Settle(i, o.settled, o.ok, "-"),
                                FetchRequest(RefetchClosure(i),
                                             Cause("refetch", 0, i, 0, NoForm)))
               /\ UNCHANGED error
          ELSE /\ net' = Settle(i, o.settled, o.ok, "-")
               /\ UNCHANGED <<showForm, formData, loading, error>>
    /\ UNCHANGED <<applications, searchTerm, statusFilter, sourceFilter, mounted, timers,
                   effectTimeoutId, hist, elsewhere>>

(***************************************************************************)
(* Deleting a row.                                                         *)
(***************************************************************************)
\* a faulty check: the answer to the prompt is not looked at
ProceedsAlways(answer) == TRUE

\* if (!confirm('Delete this application?')) return;
Proceeds(answer) == answer

\* a faulty delete: the list is fetched again without waiting for the DELETE
DeleteRequestsEager(id, closure, cause) ==
    <<DeleteRequest(id, closure, cause),
      FetchRequest(closure, Cause("refetch", 0, Len(net) + 1, 0, NoForm))>>

\* the requests handleDelete issues before its await
DeleteRequests(id, closure, cause) == <<DeleteRequest(id, closure, cause)>>

\* onClick of a row's Delete: handleDelete(app.id) up to its await; `answer` is
\* what the user answers to the prompt
HandleDelete(id, answer) ==
    /\ UserCanAct
    /\ id \in RowsShown
    /\ Len(net) + Reserved + 2 <= MaxRequests
    /\ hist' = [hist EXCEPT !.prompt = [answer |-> answer, bit |-> 1 - @.bit],
                            !.accepted = IF answer THEN @ + 1 ELSE @]
    /\ net' = (IF Proceeds(answer)
                  THEN net \o DeleteRequests(id, CurrentFilters,
                                             Cause("delete", 0, 0, id, NoForm))
                  ELSE net)
    /\ UNCHANGED <<applications, loading, error, showForm, searchTerm, statusFilter,
                   sourceFilter, formData, mounted, timers, effectTimeoutId, elsewhere>>

\* the response of delete request i arrives: handleDelete after its await
DeleteResponds(i, o) ==
    /\ i \in Pending("DELETE")
    /\ o \in MutationOutcomes
    /\ IF o.settled = "rejected"
          THEN \* catch
               /\ net' = Settle(i, o.settled, o.ok, "-")
               /\ error' = (IF mounted THEN DeleteError ELSE error)
               /\ UNCHANGED loading
          ELSE \* fetchApplications(), whatever the status
               /\ loading' = (IF mounted THEN TRUE ELSE loading)
               /\ net' = Append(Settle(i, o.settled, o.ok, "-"),
                                FetchRequest(RefetchClosure(i),
                                             Cause("refetch", 0, i, 0, NoForm)))
               /\ UNCHANGED error
    /\ UNCHANGED <<applications, showForm, searchTerm, statusFilter, sourceFilter,
                   formData, mounted, timers, effectTimeoutId, hist, elsewhere>>

(***************************************************************************)
(* The steps of fetchAllAnalytics.                                         *)
(***************************************************************************)
\* a faulty effect without its dependency array: it runs after every render
EffectRunsAfterEveryLoad(pc) == pc.at \in {"effect", "done"}

\* the [] of useEffect(..., []): the effect runs after the first render only
EffectRunsOnMount(pc) == pc.at = "effect"

\* useEffect(() => { fetchAllAnalytics() }, []): setLoading(true) and the five
\* fetch calls of the array, up to the await
AnalyticsMount ==
    /\ EffectRunsOnMount(analyticsPc)
    /\ analyticsLoading' = TRUE
    /\ analyticsReqs' = [k \in DOMAIN Endpoints |-> [Unsent EXCEPT !.state = "pending"]]
    /\ analyticsPc' = [at |-> "all", k |-> 0]
    /\ UNCHANGED <<dashboard, funnel, sources, statusDist, weeklyTrends, analyticsError,
                   appVars, probeVars, companiesVars>>

\* the fetch of endpoint k settles; while fetchAllAnalytics awaits Promise.all it
\* resumes in the catch block on the first rejection, or after the await once
\* all five have fulfilled
AnalyticsResponds(k, o) ==
    /\ analyticsReqs[k].state = "pending"
    /\ o \in AnalyticsOutcomes
    /\ analyticsReqs' = [analyticsReqs EXCEPT ![k] = o]
    /\ IF analyticsPc.at = "all" /\ PromiseAll(analyticsReqs') = "rejected"
          THEN /\ analyticsError' = CatchSetsError
               /\ analyticsLoading' = FALSE
               /\ analyticsPc' = [at |-> "done", k |-> 0]
          ELSE IF analyticsPc.at = "all" /\ PromiseAll(analyticsReqs') = "fulfilled"
          THEN /\ analyticsPc' = [at |-> "json", k |-> 1]
               /\ UNCHANGED <<analyticsError, analyticsLoading>>
          ELSE UNCHANGED <<analyticsError, analyticsLoading, analyticsPc>>
    /\ UNCHANGED <<dashboard, funnel, sources, statusDist, weeklyTrends, appVars, probeVars, companiesVars>>

\* one of setDashboard(await dashboardRes.json()) ... setWeeklyTrends(await
\* trendsRes.json()); after the last, setError(null) and finally; a body that
\* does not parse goes to catch and finally
AnalyticsParse ==
    /\ analyticsPc.at = "json"
    /\ LET k == analyticsPc.k
           parsed == analyticsReqs[k].state = "fulfilled" /\ analyticsReqs[k].json = "valid"
       IN  /\ dashboard' = (IF parsed /\ k = 1 THEN DataOf(k) ELSE dashboard)
           /\ funnel' = (IF parsed /\ k = 2 THEN DataOf(k) ELSE funnel)
           /\ sources' = (IF parsed /\ k = 3 THEN DataOf(k) ELSE sources)
           /\ statusDist' = (IF parsed /\ k = 4 THEN DataOf(k) ELSE statusDist)
           /\ weeklyTrends' = (IF parsed /\ k = 5 THEN DataOf(k) ELSE weeklyTrends)
           /\ IF ~parsed
                 THEN /\ analyticsError' = CatchSetsError
                      /\ analyticsLoading' = FALSE
                      /\ analyticsPc' = [at |-> "done", k |-> 0]
                 ELSE IF k = Len(Endpoints)
                 THEN /\ analyticsError' = "null"
                      /\ analyticsLoading' = FALSE
                      /\ analyticsPc' = [at |-> "done", k |-> 0]
                 ELSE /\ analyticsPc' = [at |-> "json", k |-> k + 1]
                      /\ UNCHANGED <<analyticsError, analyticsLoading>>
    /\ UNCHANGED <<analyticsReqs, appVars, probeVars, companiesVars>>

NextAnalytics ==
    \/ AnalyticsMount
    \/ \E k \in DOMAIN Endpoints, o \in AnalyticsOutcomes : AnalyticsResponds(k, o)
    \/ AnalyticsParse

(***************************************************************************)
(* The handlers of the Companies page.  A state setter called after the    *)
(* component was removed does nothing; a fetch is issued all the same.     *)
(***************************************************************************)
otherPages == <<appVars, probeVars, analyticsVars>>

\* the render that follows the step throws
CompaniesCrash ==
    CompaniesRenderThrows(variant, companies', selectedCompany', companyDetails',
                          companiesLoading', companiesError')

StaysMounted == companiesMounted' = (companiesMounted /\ ~CompaniesCrash)

\* useEffect(() => { fetchCompanies() }, []): setLoading(true), fetch
CompaniesMount ==
    /\ chist.mounts = 0
    /\ chist' = [chist EXCEPT !.mounts = 1]
    /\ companiesLoading' = TRUE
    /\ cnet' = Append(cnet, CompaniesRequest(CCause("mount", 0, 0, 0)))
    /\ UNCHANGED <<variant, companies, selectedCompany, companyDetails, companiesError,
                   companySearch, notes, showNotesForm, companiesMounted, otherPages>>

\* fetchCompanies after its awaits: setCompanies, setError(null), or the catch;
\* then finally
CompaniesResponds(i, o) ==
    /\ i \in DOMAIN cnet /\ cnet[i].part = "list" /\ cnet[i].state = "pending"
    /\ o \in CompaniesOutcomes
    /\ cnet' = CSettle(i, o)
    /\ IF ~companiesMounted
          THEN UNCHANGED <<companies, companiesError, companiesLoading>>
          ELSE /\ companiesLoading' = FALSE
               /\ IF o.settled = "rejected" \/ o.kind = "invalid"
                     THEN companiesError' = CompaniesFetchError /\ UNCHANGED companies
                     ELSE companies' = CompaniesOf(o) /\ companiesError' = NoError
    /\ UNCHANGED <<variant, selectedCompany, companyDetails, companySearch, notes,
                   showNotesForm, chist, otherPages>>
    /\ StaysMounted

\* the requests of the refresh that follows a PUT
RefreshSize(part) == IF part = "notes" \/ variant = "stats" THEN 2 ELSE 3

RECURSIVE SumRefresh(_)
SumRefresh(S) ==
    IF S = {} THEN 0
    ELSE LET i == CHOOSE x \in S : TRUE
         IN  RefreshSize(cnet[i].part) + SumRefresh(S \ {i})

\* requests still to come for the PUTs that have not settled
CompaniesReserved ==
    SumRefresh({i \in DOMAIN cnet : cnet[i].method = "PUT" /\ cnet[i].state = "pending"})

\* there is room for k more requests
Room(k) ==
    /\ Len(chist.log) < MaxCompanyEvents
    /\ Len(cnet) + CompaniesReserved + k <= MaxCompanyRequests

\* a faulty handler: the click fetches the details twice
ClickRequestsTwice(companyName, cause) ==
    DetailRequests(companyName, cause) \o DetailRequests(companyName, cause)

\* onClick={() => fetchCompanyDetails(company.company_name)}
ClickRequests(companyName, cause) == DetailRequests(companyName, cause)

\* a click on the row of a company
ClickCompany(companyName) ==
    /\ companyName \in CompanyRows
    /\ Room(IF variant = "stats" THEN 1 ELSE 2)
    /\ chist' = [chist EXCEPT !.log = Append(@, [type |-> "click", name |-> companyName,
                                                 value |-> EmptyString]),
                              !.calls = @ + 1]
    /\ cnet' = cnet \o ClickRequests(companyName,
                                     CCause("click", Len(chist.log) + 1, 0, chist.calls + 1))
    /\ UNCHANGED <<variant, companies, selectedCompany, companyDetails, companiesLoading,
                   companiesError, companySearch, notes, showNotesForm, companiesMounted,
                   otherPages>>

\* onChange={(e) => setSearchTerm(e.target.value)} of the stats variant
SearchCompanies(v) ==
    /\ variant = "stats" /\ CompaniesView = "page"
    /\ v \in CompanySearches \ {companySearch}
    /\ companySearch' = v
    /\ UNCHANGED <<variant, companies, selectedCompany, companyDetails, companiesLoading,
                   companiesError, notes, showNotesForm, companiesMounted, cnet, chist,
                   otherPages>>

\* a guard the code does not have: a response is dropped when the response of
\* a later click has been stored
AppliesNewestDetails(i) ==
    \A j \in DOMAIN cnet : (j > i /\ cnet[j].part = "stats") => cnet[j].state = "pending"

\* setCompanyDetails(data); setSelectedCompany(companyName) run for whichever
\* response arrives: nothing compares it with later clicks
AppliesDetails(i) == TRUE

\* fetchCompanyDetails of the stats variant after its awaits
StatsResponds(i, o) ==
    /\ i \in DOMAIN cnet /\ cnet[i].part = "stats" /\ cnet[i].state = "pending"
    /\ o \in DetailOutcomes("stats")
    /\ cnet' = CSettle(i, o)
    /\ IF ~companiesMounted
          THEN UNCHANGED <<companyDetails, selectedCompany, companiesError>>
          ELSE IF o.settled = "rejected" \/ o.kind = "invalid"
          THEN /\ companiesError' = CompanyDetailsError
               /\ UNCHANGED <<companyDetails, selectedCompany>>
          ELSE IF ~AppliesDetails(i)
          THEN UNCHANGED <<companyDetails, selectedCompany, companiesError>>
          ELSE /\ companyDetails' = StatsDetails(cnet[i].name, o)
               /\ selectedCompany' = cnet[i].name
               /\ UNCHANGED companiesError
    /\ UNCHANGED <<variant, companies, companiesLoading, companySearch, notes,
                   showNotesForm, chist, otherPages>>
    /\ StaysMounted

\* the other request of the Promise.all of the same fetchCompanyDetails call
Partner(i) ==
    CHOOSE j \in DOMAIN cnet :
        j # i /\ cnet[j].cause.call = cnet[i].cause.call /\ cnet[j].part \in {"apps", "details"}

\* fetchCompanyDetails of the notes variant: one of its two fetches settles.
\* The function resumes in the catch on the first rejection, or after the
\* await once both have fulfilled, and then reads the two bodies
DetailPartResponds(i, o) ==
    /\ i \in DOMAIN cnet /\ cnet[i].part \in {"apps", "details"} /\ cnet[i].state = "pending"
    /\ o \in DetailOutcomes(cnet[i].part)
    /\ cnet' = CSettle(i, o)
    /\ LET j == Partner(i)
           apps == IF cnet[i].part = "apps" THEN cnet'[i] ELSE cnet'[j]
           details == IF cnet[i].part = "details" THEN cnet'[i] ELSE cnet'[j]
           rejectsNow == o.settled = "rejected" /\ cnet[j].state # "rejected"
           fulfilsNow == o.settled = "fulfilled" /\ cnet[j].state = "fulfilled"
       IN  IF ~companiesMounted \/ (~rejectsNow /\ ~fulfilsNow)
              THEN UNCHANGED <<companyDetails, selectedCompany, notes, companiesError>>
              ELSE IF rejectsNow \/ apps.kind = "invalid" \/ details.kind = "invalid"
              THEN /\ companiesError' = CompanyDetailsError
                   /\ UNCHANGED <<companyDetails, selectedCompany, notes>>
              ELSE /\ companyDetails' = MergedDetails(cnet[i].name, apps, details)
                   /\ notes' = NotesOf(details)
                   /\ selectedCompany' = cnet[i].name
                   /\ UNCHANGED companiesError
    /\ UNCHANGED <<variant, companies, companiesLoading, companySearch, showNotesForm,
                   chist, otherPages>>
    /\ StaysMounted

\* a faulty handler: the list is refreshed before the PUT has been answered
StatusRequestsEager(companyName, status, cause) ==
    <<StatusRequest(companyName, status, cause), CompaniesRequest(cause)>>

\* the fetch of updateCompanyStatus / updateStatus up to its await
StatusRequests(companyName, status, cause) == <<StatusRequest(companyName, status, cause)>>

\* onChange={(e) => updateCompanyStatus(selectedCompany, e.target.value)} of the
\* stats variant
UpdateCompanyStatus(status) ==
    /\ variant = "stats" /\ StatusControlShown
    /\ status \in StatusPicks \ {ShownStatus}
    /\ Room(1 + RefreshSize("status"))
    /\ chist' = [chist EXCEPT !.log = Append(@, [type |-> "status", name |-> selectedCompany,
                                                 value |-> status])]
    /\ cnet' = cnet \o StatusRequests(selectedCompany, status,
                                      CCause("status", Len(chist.log) + 1, 0, 0))
    /\ UNCHANGED <<variant, companies, selectedCompany, companyDetails, companiesLoading,
                   companiesError, companySearch, notes, showNotesForm, companiesMounted,
                   otherPages>>

\* onClick={() => updateStatus('...')} of the notes variant
UpdateStatus(status) ==
    /\ variant = "notes" /\ StatusControlShown
    /\ status \in ButtonPicks
    /\ Room(1 + RefreshSize("status"))
    /\ chist' = [chist EXCEPT !.log = Append(@, [type |-> "status", name |-> selectedCompany,
                                                 value |-> status])]
    /\ cnet' = cnet \o StatusRequests(selectedCompany, status,
                                      CCause("status", Len(chist.log) + 1, 0, 0))
    /\ UNCHANGED <<variant, companies, selectedCompany, companyDetails, companiesLoading,
                   companiesError, companySearch, notes, showNotesForm, companiesMounted,
                   otherPages>>

\* a faulty catch of the stats variant: it sets the error of the notes variant
StatusCatchSetsError(v) == UpdateStatusError

\* the catch of the status update: console.error(...) in the stats variant,
\* setError('Failed to update status') in the notes variant
StatusCatch(v) == IF v = "stats" THEN companiesError ELSE UpdateStatusError

\* a faulty refresh: the list is not fetched again
RefreshDetailsOnly(i, cause) == DetailRequests(cnet[i].name, cause)

\* what follows the awaited PUT i: fetchCompanies() and, when the company is
\* the selected one, fetchCompanyDetails(companyName) in the stats variant;
\* fetchCompanyDetails(selectedCompany) and fetchCompanies() in the notes variant
RefreshAfterStatus(i, cause) ==
    IF variant = "stats"
       THEN <<CompaniesRequest(cause)>>
            \o (IF cnet[i].cause.selected = cnet[i].name
                   THEN DetailRequests(cnet[i].name, cause) ELSE <<>>)
       ELSE DetailRequests(cnet[i].name, cause) \o <<CompaniesRequest(cause)>>

\* the status PUT settles
StatusPutResponds(i, o) ==
    /\ i \in DOMAIN cnet /\ cnet[i].part = "status" /\ cnet[i].state = "pending"
    /\ o \in PutOutcomes
    /\ IF o.settled = "rejected"
          THEN /\ cnet' = CSettle(i, o)
               /\ companiesError' = (IF companiesMounted THEN StatusCatch(variant)
                                     ELSE companiesError)
               /\ chist' = [chist EXCEPT !.console = IF variant = "stats" THEN @ + 1 ELSE @]
               /\ UNCHANGED companiesLoading
          ELSE /\ cnet' = CSettle(i, o)
                          \o RefreshAfterStatus(i, CCause("refresh", cnet[i].cause.ev, i,
                                                          chist.calls + 1))
               /\ companiesLoading' = (IF companiesMounted THEN TRUE ELSE companiesLoading)
               /\ chist' = [chist EXCEPT !.calls = @ + 1]
               /\ UNCHANGED companiesError
    /\ UNCHANGED <<variant, companies, selectedCompany, companyDetails, companySearch,
                   notes, showNotesForm, companiesMounted, otherPages>>

\* onClick={() => setShowNotesForm(!showNotesForm)}
ToggleNotesForm ==
    /\ variant = "notes" /\ CompaniesView = "page" /\ selectedCompany # NoCompany
    /\ showNotesForm' = ~showNotesForm
    /\ UNCHANGED <<variant, companies, selectedCompany, companyDetails, companiesLoading,
                   companiesError, companySearch, notes, companiesMounted, cnet, chist,
                   otherPages>>

\* onChange={(e) => setNotes(e.target.value)} of the textarea
EditNotes(v) ==
    /\ variant = "notes" /\ CompaniesView = "page" /\ selectedCompany # NoCompany
    /\ showNotesForm
    /\ v \in NoteDrafts \ {notes}
    /\ notes' = v
    /\ UNCHANGED <<variant, companies, selectedCompany, companyDetails, companiesLoading,
                   companiesError, companySearch, showNotesForm, companiesMounted, cnet,
                   chist, otherPages>>

\* onClick={updateNotes}: the fetch of updateNotes up to its await
UpdateNotes ==
    /\ variant = "notes" /\ CompaniesView = "page" /\ selectedCompany # NoCompany
    /\ showNotesForm
    /\ Room(1 + RefreshSize("notes"))
    /\ chist' = [chist EXCEPT !.log = Append(@, [type |-> "notes", name |-> selectedCompany,
                                                 value |-> notes])]
    /\ cnet' = Append(cnet, NotesRequest(selectedCompany, notes,
                                         CCause("notes", Len(chist.log) + 1, 0, 0)))
    /\ UNCHANGED <<variant, companies, selectedCompany, companyDetails, companiesLoading,
                   companiesError, companySearch, notes, showNotesForm, companiesMounted,
                   otherPages>>

\* a faulty handler: the notes form stays open
NotesFormKept(shown) == shown

\* setShowNotesForm(false)
NotesFormAfterSave(shown) == FALSE

\* the notes PUT settles: setShowNotesForm(false) and
\* fetchCompanyDetails(selectedCompany), or the catch
NotesPutResponds(i, o) ==
    /\ i \in DOMAIN cnet /\ cnet[i].part = "notes" /\ cnet[i].state = "pending"
    /\ o \in PutOutcomes
    /\ IF o.settled = "rejected"
          THEN /\ cnet' = CSettle(i, o)
               /\ companiesError' = (IF companiesMounted THEN UpdateNotesError
                                     ELSE companiesError)
               /\ UNCHANGED <<showNotesForm, chist>>
          ELSE /\ cnet' = CSettle(i, o)
                          \o DetailRequests(cnet[i].name,
                                            CCause("refresh", cnet[i].cause.ev, i,
                                                   chist.calls + 1))
               /\ showNotesForm' = (IF companiesMounted THEN NotesFormAfterSave(showNotesForm)
                                    ELSE showNotesForm)
               /\ chist' = [chist EXCEPT !.calls = @ + 1]
               /\ UNCHANGED companiesError
    /\ UNCHANGED <<variant, companies, selectedCompany, companyDetails, companiesLoading,
                   companySearch, notes, companiesMounted, otherPages>>

NextCompanies ==
    \/ CompaniesMount
    \/ \E i \in DOMAIN cnet, o \in CompaniesOutcomes : CompaniesResponds(i, o)
    \/ \E n \in CompanyNames : ClickCompany(n)
    \/ \E v \in CompanySearches : SearchCompanies(v)
    \/ \E i \in DOMAIN cnet, o \in DetailOutcomes("stats") : StatsResponds(i, o)
    \/ \E i \in DOMAIN cnet, o \in DetailOutcomes("apps") \cup DetailOutcomes("details") :
          DetailPartResponds(i, o)
    \/ \E s \in StatusPicks : UpdateCompanyStatus(s)
    \/ \E s \in ButtonPicks : UpdateStatus(s)
    \/ \E i \in DOMAIN cnet, o \in PutOutcomes : StatusPutResponds(i, o)
    \/ ToggleNotesForm
    \/ \E v \in NoteDrafts : EditNotes(v)
    \/ UpdateNotes
    \/ \E i \in DOMAIN cnet, o \in PutOutcomes : NotesPutResponds(i, o)

(***************************************************************************)
(* The Applications page.  Three ways of using it are checked: the list    *)
(* with its filters and Delete buttons, the create form with the filters   *)
(* left alone, and everything together.                                    *)
(***************************************************************************)
LoadStep ==
    \/ \E t \in timers : TimerFires(t)
    \/ \E i \in DOMAIN net, o \in GetOutcomes : GetResponds(i, o)

FilterStep ==
    \/ \E v \in SearchChoices : ChangeSearch(v)
    \/ \E v \in StatusChoices : ChangeStatus(v)
    \/ \E v \in SourceChoices : ChangeSource(v)

DeleteStep ==
    \/ \E id \in AppIds, answer \in BOOLEAN : HandleDelete(id, answer)
    \/ \E i \in DOMAIN net, o \in MutationOutcomes : DeleteResponds(i, o)

FormStep ==
    \/ ToggleForm
    \/ CancelForm
    \/ \E f \in DOMAIN FormValues : \E v \in FormValues[f] : SetFormField(f, v)
    \/ HandleSubmit
    \/ \E i \in DOMAIN net, o \in MutationOutcomes : PostResponds(i, o)

Next == LoadStep \/ FilterStep \/ DeleteStep

Spec == Init /\ [][Next]_vars

NextForm == LoadStep \/ FormStep

SpecForm == Init /\ [][NextForm]_vars

NextPage == LoadStep \/ FilterStep \/ DeleteStep \/ FormStep

SpecPage == Init /\ [][NextPage]_vars

\* the page with its filters left alone: the fetch of the mount, creates, deletes
NextMutations == LoadStep \/ DeleteStep \/ FormStep

SpecMutations == Init /\ [][NextMutations]_vars

\* the page with one of its filters, the required inputs of its form, creates
\* and deletes
NextRefetch ==
    \/ LoadStep
    \/ \E v \in StatusChoices : ChangeStatus(v)
    \/ DeleteStep
    \/ ToggleForm
    \/ \E f \in {"company", "role"} : \E v \in FormValues[f] : SetFormField(f, v)
    \/ HandleSubmit
    \/ \E i \in DOMAIN net, o \in MutationOutcomes : PostResponds(i, o)

SpecRefetch == Init /\ [][NextRefetch]_vars

\* the browser runs the callback of a pending timeout once its delay has
\* elapsed: a timeout that stays pending does fire
SpecTimers == Init /\ [][NextMutations]_vars /\ WF_vars(\E t \in timers : TimerFires(t))

SpecAnalytics == Init /\ [][NextAnalytics]_vars

InitCompanies == InitApp /\ IdleProbe /\ InitAnalyticsPage /\ InitCompaniesPage

SpecCompanies == InitCompanies /\ [][NextCompanies]_vars

(***************************************************************************)
(* The URL builder alone, on every value the three controls can hold.      *)
(***************************************************************************)
InitUrl == InitApp /\ InitProbe /\ InitAnalyticsPage /\ IdleCompanies

NextUrl == ApplyBuildUrl /\ UNCHANGED <<appVars, analyticsVars, companiesVars>>

SpecUrl == InitUrl /\ [][NextUrl]_vars

(***************************************************************************)
(* Properties of the Applications page.                                    *)
(***************************************************************************)
Requests(method) == {i \in DOMAIN net : net[i].method = method}

\* the list fetches started by the expiry of a timeout
TimerFetches == {i \in Requests("GET") : net[i].cause.type = "timer"}

\* the list fetches started by the continuation of create or delete request i
RefetchesAfter(i) ==
    {r \in Requests("GET") : net[r].cause.type = "refetch" /\ net[r].cause.after = i}

\* C1: a filter change cancels the timeout of the previous change and sets one of
\* its own: at most one timeout is pending and it is the last change's, with the
\* filter values of that change; a list fetch started by a timeout is started by
\* the timeout of the change that was the last one at that moment, and no change
\* starts two.
C1_DebounceLatestOnly ==
    /\ Cardinality(timers) <= 1
    /\ \A t \in timers : t.change = hist.changes /\ t.closure = CurrentFilters
    /\ \A i \in TimerFetches : net[i].cause.change = net[i].cause.latest
    /\ \A i, j \in TimerFetches : net[i].cause.change = net[j].cause.change => i = j

\* a burst of two changes, the second made while the timeout of the first was
\* pending, after which one list fetch was started, by the timeout of the second
C1_Witness ==
    /\ hist.changes = 2
    /\ timers = {}
    /\ \E i \in TimerFetches : net[i].cause.change = 2 /\ net[i].closure = CurrentFilters
    /\ ~ \E i \in TimerFetches : net[i].cause.change = 1

\* C2: list responses are neither cancelled nor put in order: the list displayed
\* is the body of the list response that was parsed last, whichever request it
\* answers.
C2_LastArrivalShown ==
    /\ hist.shownFrom = hist.parsed
    /\ hist.shownFrom # 0 =>
          /\ net[hist.shownFrom].method = "GET"
          /\ net[hist.shownFrom].state = "fulfilled"
          /\ applications.kind = net[hist.shownFrom].kind

\* fetch F1 was issued before F2 with other filter values, both were answered
\* with rows, F2's answer was applied first and F1's after it: the list shown
\* is F1's while the filters are those of F2
C2_StaleListShown ==
    \E f1, f2 \in Requests("GET") :
        /\ f1 < f2
        /\ net[f1].kind = "list" /\ net[f2].kind = "list"
        /\ net[f1].url # net[f2].url
        /\ net[f2].closure = CurrentFilters
        /\ hist.shownFrom = f1
        /\ mounted /\ ~loading /\ error = NoError

\* C7: a DELETE is only ever issued in the step in which the prompt was shown and
\* accepted, and the step of a declined prompt issues no request and leaves the
\* list, the loading flag and the error as they were.
C7_DeclineChangesNothing ==
    [][ /\ (hist'.prompt.bit # hist.prompt.bit /\ ~hist'.prompt.answer)
            => /\ net' = net
               /\ applications' = applications
               /\ loading' = loading
               /\ error' = error
        /\ (Requests("DELETE")' # Requests("DELETE"))
            => (hist'.prompt.bit # hist.prompt.bit /\ hist'.prompt.answer) ]_vars

\* a prompt has been declined with rows on display and nothing was requested
C7_Witness ==
    /\ hist.prompt.bit = 1
    /\ ~hist.prompt.answer
    /\ RowsShown # {}
    /\ Requests("DELETE") = {}

\* C8 as stated: every accepted prompt has issued one DELETE for the row, and each
\* DELETE that has completed is followed by one list re-fetch.
C8_RefetchAfterEveryDelete ==
    /\ Cardinality(Requests("DELETE")) = hist.accepted
    /\ \A d \in Requests("DELETE") :
          /\ net[d].url = API_URL \o ApplicationsPath \o <<"/">> \o IdString(net[d].cause.id)
          /\ net[d].state = "pending" => RefetchesAfter(d) = {}
          /\ net[d].state # "pending" => Cardinality(RefetchesAfter(d)) = 1

\* C8, amended: every accepted prompt has issued one DELETE for the row; while the
\* DELETE is pending, and when its request has rejected, no re-fetch exists for
\* it; when it has resolved, with whatever status, exactly one re-fetch, issued
\* after it, exists for it.
C8_RefetchAfterResolvedDelete ==
    /\ Cardinality(Requests("DELETE")) = hist.accepted
    /\ \A d \in Requests("DELETE") :
          /\ net[d].url = API_URL \o ApplicationsPath \o <<"/">> \o IdString(net[d].cause.id)
          /\ net[d].state \in {"pending", "rejected"} => RefetchesAfter(d) = {}
          /\ net[d].state = "fulfilled" =>
                /\ Cardinality(RefetchesAfter(d)) = 1
                /\ \A r \in RefetchesAfter(d) : r > d

\* the DELETE of row 12 has resolved and its re-fetch has been issued
C8_Witness ==
    \E d \in Requests("DELETE") :
        /\ net[d].cause.id = 12
        /\ net[d].state = "fulfilled"
        /\ RefetchesAfter(d) # {}

\* C5: there are as many POST requests as submissions, each to /applications and
\* with a body that reads back as the form state of its submission.
C5_OnePostWithFormBody ==
    /\ Cardinality(Requests("POST")) = hist.submits
    /\ \A i \in Requests("POST") :
          /\ net[i].url = API_URL \o ApplicationsPath
          /\ JSONParse(net[i].body) = net[i].cause.form
          /\ {net[i].body[k][1] : k \in DOMAIN net[i].body}
                = {"company", "role", "status", "source", "location", "salary_range", "notes"}

\* a form with notes filled in has been submitted
C5_Witness ==
    \E i \in Requests("POST") :
        /\ net[i].cause.form.notes # EmptyString
        /\ net[i].cause.form.company # EmptyString

\* the form is on display
FormShown == ControlsShown /\ showForm

\* C6: the step in which a create request resolves with response.ok leaves the
\* form hidden and its state at the defaults, and starts exactly one list fetch.
C6_SuccessResetsAndRefetches ==
    [][ \A i \in DOMAIN net :
          (/\ net[i].method = "POST" /\ net[i].state = "pending"
           /\ net'[i].state = "fulfilled" /\ net'[i].ok)
          => /\ ~FormShown'
             /\ mounted => (~showForm' /\ formData' = DefaultForm)
             /\ Len(net') = Len(net) + 1
             /\ net'[Len(net')].method = "GET"
             /\ net'[Len(net')].state = "pending"
             /\ net'[Len(net')].cause.type = "refetch"
             /\ net'[Len(net')].cause.after = i ]_vars

\* a create has succeeded: the form is hidden, reset, and the re-fetch is pending
C6_Witness ==
    \E i \in Requests("POST") :
        /\ net[i].state = "fulfilled" /\ net[i].ok
        /\ net[i].cause.form.notes # EmptyString
        /\ ~showForm /\ formData = DefaultForm
        /\ \E r \in RefetchesAfter(i) : net[r].state = "pending"

(***************************************************************************)
(* Properties of the list URL.                                             *)
(***************************************************************************)
\* C3: the query string of the list URL has one parameter for each filter whose
\* value is not empty, under the filter's name, and no other parameter.
C3_QueryHasExactlyTheNonEmptyFilters ==
    probeUrl # NotBuilt =>
        /\ (SearchKey \in QueryKeys(probeUrl)) <=> (probeArgs.search # EmptyString)
        /\ (StatusKey \in QueryKeys(probeUrl)) <=> (probeArgs.status # EmptyString)
        /\ (SourceKey \in QueryKeys(probeUrl)) <=> (probeArgs.source # EmptyString)
        /\ QueryKeys(probeUrl) \subseteq {SearchKey, StatusKey, SourceKey}
        /\ Len(QueryParams(probeUrl)) = Cardinality(QueryKeys(probeUrl))

\* the URL was built for a search text made of "&" and "=", no status and a source
C3_Witness ==
    /\ probeUrl # NotBuilt
    /\ probeArgs.search = <<"&", "=">>
    /\ probeArgs.status = EmptyString
    /\ probeArgs.source = CompanyWebsite
    /\ QueryKeys(probeUrl) = {SearchKey, SourceKey}

\* C4: every value in the query string of the list URL is percent-encoded text
\* (unreserved characters and %XY escapes only) that decodes to the value of
\* the filter it is named after.
C4_ValuesArePercentEncoded ==
    probeUrl # NotBuilt =>
        \A i \in DOMAIN QueryParams(probeUrl) :
            LET p == QueryParams(probeUrl)[i]
            IN  /\ IsPercentEncoded(p.raw)
                /\ p.key = SearchKey => decodeURIComponent(p.raw) = probeArgs.search
                /\ p.key = StatusKey => decodeURIComponent(p.raw) = probeArgs.status
                /\ p.key = SourceKey => decodeURIComponent(p.raw) = probeArgs.source

\* the URL was built for a search text of "%" and "&", a status with "_" and a
\* source with a space, and carries the three of them
C4_Witness ==
    /\ probeUrl # NotBuilt
    /\ probeArgs.search = <<"%", "&">>
    /\ probeArgs.status = PhoneScreen
    /\ probeArgs.source = CompanyWebsite
    /\ RawValues(probeUrl, SearchKey) = {<<"%","2","5","%","2","6">>}
    /\ RawValues(probeUrl, StatusKey) = {PhoneScreen}
    /\ Len(QueryParams(probeUrl)) = 3

(***************************************************************************)
(* Properties of the Analytics page.                                       *)
(***************************************************************************)
AnalyticsData == <<dashboard, funnel, sources, statusDist, weeklyTrends>>

\* C9: the five sections are rendered only when all five requests have resolved
\* and each state holds the body of its endpoint; once a request has rejected
\* the page renders the error 'Failed to fetch analytics'.
C9_SectionsOnlyWhenAllResolved ==
    /\ AnalyticsView = "sections" =>
          \A k \in DOMAIN Endpoints :
              /\ analyticsReqs[k].state = "fulfilled"
              /\ AnalyticsData[k] = DataOf(k)
    /\ (\E k \in DOMAIN Endpoints : analyticsReqs[k].state = "rejected") =>
          /\ AnalyticsView = "error"
          /\ analyticsError = AnalyticsError

\* one request has rejected, the four others have succeeded, and the page shows
\* the error
C9_Witness ==
    /\ analyticsReqs[3].state = "rejected"
    /\ \A k \in DOMAIN Endpoints \ {3} :
          analyticsReqs[k].state = "fulfilled" /\ analyticsReqs[k].ok
    /\ AnalyticsView = "error"

\* C10 as stated: the loading state is left only when none of the five requests
\* is pending any more.
C10_LoadingUntilAllCompleted ==
    ~analyticsLoading =>
        \A k \in DOMAIN Endpoints : analyticsReqs[k].state \in {"fulfilled", "rejected"}

\* C10, amended: the effect issues the five requests together; the loading state
\* is left for the sections only when all five have resolved, and it is left
\* with a request still pending only for the error, after a request rejected.
C10_LoadingUntilAllResolvedOrOneRejected ==
    /\ \/ \A k \in DOMAIN Endpoints : analyticsReqs[k].state = "unsent"
       \/ \A k \in DOMAIN Endpoints : analyticsReqs[k].state # "unsent"
    /\ analyticsPc.at = "effect" <=> analyticsReqs[1].state = "unsent"
    /\ (~analyticsLoading /\ analyticsError = "null") =>
          \A k \in DOMAIN Endpoints : analyticsReqs[k].state = "fulfilled"
    /\ (~analyticsLoading /\ \E k \in DOMAIN Endpoints : analyticsReqs[k].state = "pending") =>
          /\ analyticsError = AnalyticsError
          /\ \E k \in DOMAIN Endpoints : analyticsReqs[k].state = "rejected"

\* the page has left the loading state for the error while requests are pending
C10_Witness ==
    /\ ~analyticsLoading
    /\ AnalyticsView = "error"
    /\ \E k \in DOMAIN Endpoints : analyticsReqs[k].state = "pending"
    /\ \E k \in DOMAIN Endpoints : analyticsReqs[k].state = "fulfilled"

(***************************************************************************)
(* Properties of the Companies page.                                       *)
(***************************************************************************)
\* the requests of fetchCompanyDetails
DetailParts == {"stats", "apps", "details"}

\* the URL of the detail endpoint of a company
DetailEndpoint(companyName) ==
    IF variant = "stats" THEN StatsUrl(companyName) ELSE DetailsUrl(companyName)

\* the requests issued by the handler of user event e
IssuedBy(e) == {i \in DOMAIN cnet : cnet[i].cause.ev = e /\ cnet[i].cause.type # "refresh"}

\* C11: every click on a row has issued one fetch of the detail endpoint of the
\* company clicked (with, in the notes variant, the fetch of its applications)
\* and nothing else; every request of fetchCompanyDetails is for the company of
\* the click that issued it or of the update it follows.
C11_ClickFetchesDetailsOnce ==
    /\ \A e \in DOMAIN chist.log :
          chist.log[e].type = "click" =>
              /\ Cardinality({i \in IssuedBy(e) :
                                cnet[i].url = DetailEndpoint(chist.log[e].name)}) = 1
              /\ Cardinality(IssuedBy(e)) = (IF variant = "stats" THEN 1 ELSE 2)
              /\ \A i \in IssuedBy(e) :
                    /\ cnet[i].method = "GET" /\ cnet[i].part \in DetailParts
                    /\ cnet[i].name = chist.log[e].name
    /\ \A i \in DOMAIN cnet :
          cnet[i].part \in DetailParts =>
              /\ cnet[i].cause.ev \in DOMAIN chist.log
              /\ cnet[i].name = chist.log[cnet[i].cause.ev].name
              /\ cnet[i].url \in {StatsUrl(cnet[i].name), CompanyUrl(cnet[i].name),
                                  DetailsUrl(cnet[i].name)}
              /\ \/ cnet[i].cause.type = "click" /\ chist.log[cnet[i].cause.ev].type = "click"
                 \/ /\ cnet[i].cause.type = "refresh"
                    /\ chist.log[cnet[i].cause.ev].type \in {"status", "notes"}

\* two rows have been clicked, the second while the details of the first were on
\* their way, and each click has its own detail fetch
C11_Witness ==
    /\ Len(chist.log) = 2
    /\ chist.log[1].type = "click" /\ chist.log[1].name = AandB
    /\ chist.log[2].type = "click" /\ chist.log[2].name = Acme
    /\ \E i \in IssuedBy(1) : cnet[i].state = "pending"
    /\ \E i \in IssuedBy(2) : cnet[i].url = DetailEndpoint(Acme)

\* the requests issued by the continuation of PUT request i
RefreshAfter(i) ==
    {r \in DOMAIN cnet : cnet[r].cause.type = "refresh" /\ cnet[r].cause.after = i}

StatusPuts == {i \in DOMAIN cnet : cnet[i].part = "status"}

\* each status update has issued one PUT /companies/{name}/status for the
\* selected company with the body {status}
OneStatusPut ==
    /\ \A e \in DOMAIN chist.log :
          chist.log[e].type = "status" =>
              /\ Cardinality(IssuedBy(e)) = 1
              /\ \A i \in IssuedBy(e) :
                    /\ cnet[i].method = "PUT"
                    /\ cnet[i].name = cnet[i].cause.selected
                    /\ cnet[i].url = StatusUrl(chist.log[e].name)
                    /\ cnet[i].body = << <<"status", chist.log[e].value>> >>
    /\ \A i \in StatusPuts : chist.log[cnet[i].cause.ev].type = "status"

\* PUT d is followed by one fetch of the list and one of the details of its
\* company, both issued after it
RefreshedBoth(d) ==
    /\ Cardinality({r \in RefreshAfter(d) : cnet[r].url = CompaniesUrl}) = 1
    /\ Cardinality({r \in RefreshAfter(d) : cnet[r].url = DetailEndpoint(cnet[d].name)}) = 1
    /\ \A r \in RefreshAfter(d) :
          r > d /\ cnet[r].method = "GET" /\ cnet[r].part \in DetailParts \cup {"list"}

\* C12 as stated: a status update issues one PUT with the body {status}; no
\* refresh is issued while the PUT is pending, and once the PUT has completed
\* both the details of the company and the list have been fetched again.
C12_RefreshAfterEveryStatusPut ==
    /\ OneStatusPut
    /\ \A d \in StatusPuts :
          /\ cnet[d].state = "pending" => RefreshAfter(d) = {}
          /\ cnet[d].state # "pending" => RefreshedBoth(d)

\* C12, amended: a status update issues one PUT with the body {status}; while the
\* PUT is pending, and when its request has rejected, nothing is fetched again;
\* when it has resolved, with whatever status, both the details of the company
\* and the list have been fetched again, after it.
C12_RefreshAfterResolvedStatusPut ==
    /\ OneStatusPut
    /\ \A d \in StatusPuts :
          /\ cnet[d].state \in {"pending", "rejected"} => RefreshAfter(d) = {}
          /\ cnet[d].state = "fulfilled" => RefreshedBoth(d)

\* in the notes variant a status PUT has resolved with an error status and the
\* two detail requests and the list request follow it
C12_Witness ==
    \E d \in StatusPuts :
        /\ variant = "notes"
        /\ cnet[d].state = "fulfilled" /\ ~cnet[d].ok
        /\ Cardinality(RefreshAfter(d)) = 3

(***************************************************************************)
(* Failures of the list fetch.                                             *)
(***************************************************************************)
\* a settled request that failed: the network failed, the status was not 2xx,
\* or the body was no JSON
FetchFailed(r) == r.state = "rejected" \/ ~r.ok \/ r.kind = "invalid"

\* C13: whichever way the list fetch of the mounted page fails (network error,
\* non-2xx status, malformed JSON), the step that handles the failure sets the
\* error to 'Failed to fetch applications' and leaves the stored applications
\* as they were: the response body is not stored as page data.
C13_EveryFetchFailureSetsError ==
    [][\A i \in Pending("GET") :
          (mounted /\ net'[i].state # "pending" /\ FetchFailed(net'[i]))
              => (error' = FetchError /\ applications' = applications)]_vars

\* C14: when a create or a delete of the mounted page fails (the request is
\* rejected or answered with a non-2xx status), the step that handles the
\* failure sets the page's error string for that mutation and changes nothing
\* else of what the page shows: the list, the loading flag, the form and the
\* filters stay as they were, and no further request is issued.
C14_FailedMutationOnlySetsError ==
    [][\A i \in Pending("POST") \cup Pending("DELETE") :
          (mounted /\ net'[i].state # "pending" /\ FetchFailed(net'[i]))
              => /\ error' = (IF net[i].method = "POST" THEN CreateError ELSE DeleteError)
                 /\ UNCHANGED <<applications, loading, showForm, formData, searchTerm,
                                statusFilter, sourceFilter>>
                 /\ Len(net') = Len(net)]_vars

(***************************************************************************)
(* The page while a list fetch is in flight.                               *)
(***************************************************************************)
\* a list fetch has been started and has not settled
FetchInFlight == Pending("GET") # {}

\* the step starts a list fetch: fetchApplications() up to its await
StartsFetch == Len(net') > Len(net) /\ net'[Len(net')].method = "GET"

\* the fetch the step starts was called by handleSubmit after a create
AfterCreate ==
    LET c == net'[Len(net')].cause
    IN  c.type = "refetch" /\ net[c.after].method = "POST"

\* fetchApplications() up to its await changes the loading flag only; the form
\* that handleSubmit has reset before calling it is the one exception
StartChangesLoadingOnly ==
    StartsFetch =>
        /\ UNCHANGED <<applications, error, searchTerm, statusFilter, sourceFilter>>
        /\ ~AfterCreate => UNCHANGED <<showForm, formData>>
        /\ mounted => loading'

\* C15 as stated: while a list fetch is in flight the filters, the form and its
\* submission and the Delete button of every row are all available, and
\* starting a fetch changes neither applications, filters nor form state.
C15_EverythingEnabledWhileFetching ==
    /\ [](mounted /\ FetchInFlight
            => /\ ControlsShown
               /\ showForm => FormShown
               /\ applications.kind = "list" => RowsShown = applications.rows)
    /\ [][StartChangesLoadingOnly]_vars

\* C15, amended: starting a fetch changes neither applications, filters nor
\* form state; while a list fetch is in flight and the page, not the error, is
\* rendered, the filters, the form and its submission are available, and the
\* Delete buttons are available exactly when loading is false (the spinner
\* stands in place of the table while loading is true).
C15_EnabledWhileFetchingExceptDelete ==
    /\ [](mounted /\ FetchInFlight /\ error = NoError
            => /\ ControlsShown
               /\ showForm => FormShown
               /\ applications.kind = "list"
                    => RowsShown = (IF loading THEN {} ELSE applications.rows))
    /\ [][StartChangesLoadingOnly]_vars

\* a list fetch is in flight with loading true over a list of two rows: the
\* filled form is on display and can be submitted, no row can be deleted
C15_Witness ==
    /\ mounted /\ FetchInFlight /\ loading /\ error = NoError
    /\ applications.kind = "list" /\ applications.rows # {}
    /\ FormShown /\ FormIsValid
    /\ RowsShown = {}

(***************************************************************************)
(* What causes a request.                                                  *)
(***************************************************************************)
\* the creates and deletes among the requests
Mutations == Requests("POST") \cup Requests("DELETE")

HasPrefix(s, p) == Len(s) >= Len(p) /\ SubSeq(s, 1, Len(p)) = p

\* the collection URL and the URL of one application
CollectionUrl == API_URL \o ApplicationsPath
ItemUrls == {CollectionUrl \o <<"/">> \o IdString(id) : id \in AppIds}

\* C17: every request the Applications page has issued is a GET of the
\* collection with a query string, a POST to the collection, or a DELETE of one
\* application by its id: no PUT and no PATCH is ever issued.
C17_OnlyGetPostDelete ==
    \A i \in DOMAIN net :
        \/ net[i].method = "GET" /\ HasPrefix(net[i].url, CollectionUrl \o <<"?">>)
        \/ net[i].method = "POST" /\ net[i].url = CollectionUrl
        \/ net[i].method = "DELETE" /\ net[i].url \in ItemUrls

\* the mount's list fetch, a create, and the list fetch after it have all settled
C17_Witness ==
    /\ Len(net) = 3
    /\ net[1].method = "GET" /\ net[2].method = "POST" /\ net[3].method = "GET"
    /\ \A i \in DOMAIN net : net[i].state # "pending"

(***************************************************************************)
(* The list fetch of a timeout.                                            *)
(***************************************************************************)
\* the step in which a timeout expires and its list fetch starts
TimerFetchStarts ==
    /\ Len(net') = Len(net) + 1
    /\ net'[Len(net')].cause.type = "timer"

\* C18: the list GET that starts when a timeout expires is the GET of the
\* search, status and source values the page holds at that moment, which are
\* the values after the last filter change, and it belongs to the timeout of
\* that last change: never to an earlier one.
C18_TimerFetchCarriesLatestFilters ==
    [][TimerFetchStarts =>
          /\ net'[Len(net')].method = "GET"
          /\ net'[Len(net')].url = BuildUrl(searchTerm, statusFilter, sourceFilter)
          /\ net'[Len(net')].cause.change = hist.changes]_vars

\* two filter changes were made within one quiet period: the one list fetch
\* that followed is the second change's and carries both new values
C18_Witness ==
    /\ hist.changes = 2
    /\ searchTerm # EmptyString /\ statusFilter # EmptyString
    /\ \E i \in TimerFetches :
          /\ net[i].cause.change = 2
          /\ net[i].url = BuildUrl(searchTerm, statusFilter, sourceFilter)
    /\ \A i \in TimerFetches : net[i].cause.change # 1

\* C19: in the stats variant the step in which a status PUT is rejected writes
\* one console statement and nothing else: the error, the list, the selected
\* company, its details and the loading flag stay as they were, and no request
\* is issued.
C19_RejectedStatusPutOnlyLogs ==
    [][\A i \in DOMAIN cnet :
          (/\ variant = "stats" /\ cnet[i].part = "status"
           /\ cnet[i].state = "pending" /\ cnet'[i].state = "rejected")
          => /\ chist'.console = chist.console + 1
             /\ UNCHANGED <<companiesError, companies, selectedCompany, companyDetails,
                            companiesLoading>>
             /\ Len(cnet') = Len(cnet)]_vars

\* the status PUT of the selected company was rejected in the stats variant:
\* one console statement, no error shown, the details still on display
C19_Witness ==
    /\ variant = "stats" /\ companiesMounted
    /\ \E i \in StatusPuts : cnet[i].state = "rejected"
    /\ chist.console = 1
    /\ companiesError = NoError
    /\ selectedCompany # NoCompany /\ companyDetails # NoDetails
    /\ \A i \in DOMAIN cnet : cnet[i].part # "status" => cnet[i].cause.type # "refresh"

(***************************************************************************)
(* Saving notes in the notes variant.                                      *)
(***************************************************************************)
\* the step is a click on the save button of the notes form
SavesNotes ==
    /\ Len(chist'.log) = Len(chist.log) + 1
    /\ chist'.log[Len(chist'.log)].type = "notes"

\* the click issues one PUT of the draft to the notes of the selected company
SaveIssuesOnePut ==
    SavesNotes =>
        /\ Len(cnet') = Len(cnet) + 1
        /\ cnet'[Len(cnet')].method = "PUT"
        /\ cnet'[Len(cnet')].url = API_URL \o CompaniesPath \o <<"/">>
                                     \o encodeURIComponent(selectedCompany) \o NotesSuffix
        /\ cnet'[Len(cnet')].body = << <<"notes", notes>> >>
        /\ cnet'[Len(cnet')].state = "pending"

\* the notes PUT i settles in the step
NotesPutSettles(i) ==
    cnet[i].part = "notes" /\ cnet[i].state = "pending" /\ cnet'[i].state # "pending"

\* the form is hidden and the two detail fetches of the company of PUT i start
HidesAndRefetches(i) ==
    /\ companiesMounted => ~showNotesForm'
    /\ Len(cnet') = Len(cnet) + 2
    /\ \A p \in {"apps", "details"} :
          \E r \in (DOMAIN cnet') \ (DOMAIN cnet) :
              /\ cnet'[r].part = p /\ cnet'[r].name = cnet[i].name
              /\ cnet'[r].method = "GET" /\ cnet'[r].state = "pending"
              /\ cnet'[r].cause.after = i

\* the fetchCompanyDetails call that followed a notes PUT has both its
\* responses, the second of them arriving in the step, and both are JSON
RefetchResolves(d) ==
    /\ cnet[d].part = "details" /\ cnet[d].cause.type = "refresh"
    /\ cnet[cnet[d].cause.after].part = "notes"
    /\ cnet[d].state = "pending" \/ cnet[Partner(d)].state = "pending"
    /\ cnet'[d].state = "fulfilled" /\ cnet'[Partner(d)].state = "fulfilled"
    /\ cnet'[d].kind # "invalid" /\ cnet'[Partner(d)].kind # "invalid"

\* the draft becomes the notes of the details body, '' when it has none
DraftReplaced(d) ==
    companiesMounted =>
        notes' = (IF cnet'[d].notes = Absent THEN EmptyString ELSE cnet'[d].notes)

\* C20 as stated: saving notes issues one PUT of the draft; when the PUT has
\* been answered, in whatever way, the form is hidden and the details of the
\* company are fetched again; when that fetch resolves the draft is replaced
\* by the server's notes, or by '' when there are none.
C20_SaveAlwaysHidesAndRefetches ==
    [][/\ SaveIssuesOnePut
       /\ \A i \in DOMAIN cnet : NotesPutSettles(i) => HidesAndRefetches(i)
       /\ \A d \in DOMAIN cnet : RefetchResolves(d) => DraftReplaced(d)]_vars

\* C20, amended: saving notes issues one PUT of the draft; if the PUT resolves
\* (with any status) the form is hidden and the details of the company are
\* fetched again, and when that fetch resolves the draft is replaced by the
\* server's notes, or by '' when there are none; if the PUT is rejected the
\* error becomes 'Failed to update notes', the form stays as it is and nothing
\* is fetched.
C20_SaveHidesAndRefetchesWhenResolved ==
    [][/\ SaveIssuesOnePut
       /\ \A i \in DOMAIN cnet :
             NotesPutSettles(i) =>
                 IF cnet'[i].state = "fulfilled"
                    THEN HidesAndRefetches(i)
                    ELSE /\ Len(cnet') = Len(cnet)
                         /\ showNotesForm' = showNotesForm
                         /\ companiesMounted => companiesError' = UpdateNotesError
       /\ \A d \in DOMAIN cnet : RefetchResolves(d) => DraftReplaced(d)]_vars

\* the draft "hi" was saved for the selected company, the PUT resolved, and the
\* details fetched after it came back with the server's notes: the form is
\* hidden and the draft is the server's text
C20_Witness ==
    /\ variant = "notes" /\ companiesMounted
    /\ \E i \in DOMAIN cnet :
          /\ cnet[i].part = "notes" /\ cnet[i].state = "fulfilled"
          /\ cnet[i].body = << <<"notes", <<"h","i">> >> >>
          /\ \E d \in DOMAIN cnet :
                /\ cnet[d].part = "details" /\ cnet[d].cause.after = i
                /\ cnet[d].state = "fulfilled" /\ cnet[d].notes \in ServerNotes
                /\ cnet[Partner(d)].state = "fulfilled"
                /\ notes = cnet[d].notes
    /\ ~showNotesForm

(***************************************************************************)
(* The requests of the Analytics page.                                     *)
(***************************************************************************)
\* fetchAllAnalytics has left its finally block
AnalyticsLoaded == analyticsPc.at = "done"

\* C21: the five analytics requests are issued together, by the effect of the
\* mount, one to each endpoint; a request that has been issued is never issued
\* again, and once the load has completed no step changes any of the five
\* aggregates.
C21_AnalyticsRequestedOncePerMount ==
    [][/\ \A k \in DOMAIN Endpoints :
             /\ (analyticsReqs[k].state = "unsent" /\ analyticsReqs'[k].state # "unsent")
                   => /\ analyticsPc.at = "effect"
                      /\ \A j \in DOMAIN Endpoints :
                            /\ analyticsReqs[j].state = "unsent"
                            /\ analyticsReqs'[j].state = "pending"
             /\ analyticsReqs[k].state # "unsent" => analyticsReqs'[k].state # "unsent"
             /\ analyticsReqs[k].state \in {"fulfilled", "rejected"}
                   => analyticsReqs'[k] = analyticsReqs[k]
       /\ AnalyticsLoaded => (AnalyticsLoaded' /\ AnalyticsData' = AnalyticsData)]_vars

\* the load has completed with the five bodies stored and the sections on display
C21_Witness ==
    /\ AnalyticsLoaded
    /\ AnalyticsView = "sections"
    /\ \A k \in DOMAIN Endpoints :
          /\ analyticsReqs[k].state = "fulfilled" /\ analyticsReqs[k].ok
          /\ AnalyticsData[k] = DataOf(k)

(***************************************************************************)
(* The filters of the list fetch that follows a create or a delete.        *)
(***************************************************************************)
\* the request the step issues
Issued == net'[Len(net')]

\* C22: a create or a delete is issued with the filter values of that moment,
\* and the list fetch started when its response arrives is the GET of those
\* values, whatever the filters have become in the meantime.
C22_RefetchCarriesFiltersOfTheAction ==
    [][Len(net') > Len(net) =>
          /\ Issued.method \in {"POST", "DELETE"} => Issued.closure = CurrentFilters
          /\ Issued.cause.type = "refetch" =>
                LET then == net[Issued.cause.after].closure
                IN  Issued.url = BuildUrl(then.search, then.status, then.source)]_vars

\* the status filter was changed while a create was in flight: the list fetch
\* that followed the create has no status parameter, unlike the page's filters
C22_Witness ==
    \E m \in Requests("POST") : \E r \in RefetchesAfter(m) :
        /\ net[m].closure.status = EmptyString
        /\ statusFilter # EmptyString
        /\ net[m].cause.latest < net[r].cause.latest
        /\ net[r].url = BuildUrl(EmptyString, EmptyString, EmptyString)
        /\ net[r].url # BuildUrl(searchTerm, statusFilter, sourceFilter)

(***************************************************************************)
(* Leaving the error view.                                                 *)
(***************************************************************************)
\* C23: an error that is set is cleared only in the step in which a list fetch
\* completes successfully (fulfilled with a 2xx status), and an error set
\* while no list fetch is in flight and no timeout is pending stays set.
C23_ErrorClearedOnlyBySuccessfulFetch ==
    [][/\ (error # NoError /\ error' = NoError)
             => \E i \in Pending("GET") : net'[i].state = "fulfilled" /\ net'[i].ok
       /\ (error # NoError /\ Pending("GET") = {} /\ timers = {}) => error' = error]_vars

(***************************************************************************)
(* The loading flag.                                                       *)
(***************************************************************************)
\* the list fetches that have completed, in success or in failure
CompletedFetches == {i \in Requests("GET") : net[i].state # "pending"}

\* C24: whenever a list fetch has completed and none is in flight, loading is
\* false.
C24_NotLoadingWhenNoFetchInFlight ==
    (CompletedFetches # {} /\ Pending("GET") = {}) => ~loading

\* two list fetches overlapped and the first one issued was the last to be
\* applied; both have completed and loading is false
C24_Witness ==
    /\ mounted
    /\ Cardinality(CompletedFetches) = 2 /\ Pending("GET") = {}
    /\ \A i \in CompletedFetches : net[i].state = "fulfilled" /\ net[i].ok
    /\ hist.parsed = 1 /\ hist.shownFrom = 1
    /\ ~loading

(***************************************************************************)
(* The selected company and its details.                                   *)
(***************************************************************************)
\* detail request i settles in the step as a failure: rejected, answered with
\* an error status, or with a body that is no JSON
DetailFetchFails(i) ==
    /\ cnet[i].part \in DetailParts /\ cnet[i].state = "pending"
    /\ cnet'[i].state # "pending"
    /\ cnet'[i].state = "rejected" \/ ~cnet'[i].ok

\* detail request i of companyName settles in the step, fulfilled
DetailFetchCompletes(i, companyName) ==
    /\ cnet[i].part \in DetailParts /\ cnet[i].state = "pending"
    /\ cnet'[i].state = "fulfilled"
    /\ cnet[i].name = companyName

\* C25: the selected company is unset or is the company whose detail response
\* is stored in companyDetails; the two are written together, in the step in
\* which a detail fetch of that company completes; a detail fetch that fails
\* changes neither.
C25_SelectedAndDetailsWrittenTogether ==
    /\ [](selectedCompany = NoCompany
            \/ (companyDetails # NoDetails /\ companyDetails.of = selectedCompany))
    /\ [][/\ (selectedCompany' # selectedCompany \/ companyDetails' # companyDetails)
                => /\ companyDetails'.of = selectedCompany'
                   /\ \E i \in DOMAIN cnet : DetailFetchCompletes(i, selectedCompany')
          /\ \A i \in DOMAIN cnet :
                DetailFetchFails(i) => UNCHANGED <<selectedCompany, companyDetails>>]_vars

(***************************************************************************)
(* Detail responses out of order.                                          *)
(***************************************************************************)
\* the detail response of a click on another company, made after the click of
\* request i, has already arrived and been parsed
OvertakenBy(i) ==
    {j \in DOMAIN cnet : /\ j > i /\ cnet[j].part = "stats"
                         /\ cnet[j].cause.type = "click" /\ cnet[j].name # cnet[i].name
                         /\ cnet[j].state = "fulfilled" /\ cnet[j].kind # "invalid"}

\* C26: in the stats variant, when the detail response of an earlier click
\* arrives after the response of a later click on another company, the
\* selected company and the details become those of the earlier click: the
\* last response to arrive is the one on display.
C26_LastDetailResponseWins ==
    [][\A i \in DOMAIN cnet :
          (/\ variant = "stats" /\ companiesMounted
           /\ cnet[i].part = "stats" /\ cnet[i].cause.type = "click"
           /\ cnet[i].state = "pending"
           /\ cnet'[i].state = "fulfilled" /\ cnet'[i].kind # "invalid"
           /\ OvertakenBy(i) # {})
          => /\ selectedCompany' = cnet[i].name
             /\ companyDetails'.of = cnet[i].name]_vars

\* company A was clicked, then company B; both responses have arrived and the
\* company on display is A
C26_Witness ==
    /\ variant = "stats" /\ companiesMounted
    /\ \E i, j \in DOMAIN cnet :
          /\ i < j
          /\ cnet[i].part = "stats" /\ cnet[j].part = "stats"
          /\ cnet[i].cause.type = "click" /\ cnet[j].cause.type = "click"
          /\ cnet[i].name # cnet[j].name
          /\ cnet[i].state = "fulfilled" /\ cnet[i].kind = "data"
          /\ cnet[j].state = "fulfilled" /\ cnet[j].kind = "data"
          /\ selectedCompany = cnet[i].name
          /\ companyDetails = StatsDetails(cnet[i].name, cnet[i])

(***************************************************************************)
(* The first load.                                                         *)
(***************************************************************************)
\* the user has done nothing since the mount
NoInteraction ==
    /\ hist.changes = 0 /\ hist.submits = 0 /\ hist.prompt = NoPrompt
    /\ ~showForm /\ formData = DefaultForm

\* the list fetch of the mount has been issued / has been answered
MountFetchIssued == Len(net) = 1
MountFetchAnswered == Len(net) = 1 /\ net[1].state # "pending"

\* C27: as long as the user does nothing, loading is true from the mount until
\* the response of the one list GET arrives; that GET is issued once the quiet
\* period has elapsed, has no filter parameter, and nothing else is ever
\* requested; from the arrival of its response, in success or in failure,
\* loading is false.
C27_MountLoadsOnce ==
    /\ [](NoInteraction =>
            /\ Len(net) <= 1
            /\ Len(net) = 0 => (loading /\ Cardinality(timers) = 1)
            /\ MountFetchIssued =>
                  /\ net[1].method = "GET"
                  /\ net[1].url = API_URL \o ApplicationsPath \o <<"?">>
                  /\ net[1].cause.type = "timer" /\ net[1].cause.change = 0
                  /\ timers = {}
                  /\ loading <=> net[1].state = "pending")
    /\ <>(~NoInteraction \/ MountFetchIssued)
    /\ [][(NoInteraction /\ NoInteraction' /\ MountFetchAnswered) => ~loading']_vars

\* the list fetch of the mount was rejected with the user doing nothing: the
\* error is on display and loading is false
C27_Witness ==
    /\ NoInteraction /\ MountFetchAnswered
    /\ net[1].state = "rejected"
    /\ error = FetchError
    /\ ~loading

(***************************************************************************)
(* A create the server refuses.                                            *)
(***************************************************************************)
\* create request i is answered in this step with a status outside 200-299
CreateRefused(i) ==
    /\ net[i].method = "POST" /\ net[i].state = "pending"
    /\ net'[i].state = "fulfilled" /\ ~net'[i].ok

\* C28: when the create POST is answered with a non-ok response, handleSubmit
\* changes nothing: the form and its values, the list, the error and the
\* loading flag are as they were, and no request and no timer is started.
C28_RefusedCreateChangesNothing ==
    [][\A i \in DOMAIN net :
          CreateRefused(i)
          => /\ UNCHANGED <<showForm, formData, applications, error, loading, timers>>
             /\ Len(net') = Len(net)
             /\ \A j \in DOMAIN net : j # i => net'[j] = net[j]]_vars

\* a create was refused: the form is still open with the values that were
\* submitted, and no list fetch follows the create
C28_Witness ==
    \E i \in DOMAIN net :
        /\ net[i].method = "POST" /\ net[i].state = "fulfilled" /\ ~net[i].ok
        /\ RefetchesAfter(i) = {}
        /\ showForm /\ formData = net[i].cause.form /\ formData # DefaultForm
        /\ error = NoError
=============================================================================
